---- MODULE Spec2Model ----
(***************************************************************************)
(* Verification model of the strategy_lab backtesting engine               *)
(* (backend/app/services/backtester.py, indicators.py).                    *)
(*                                                                         *)
(* Floating point cells of a pandas Series are modelled as exact rationals *)
(* [n, d] in lowest terms with d > 0; the undefined value (NaN) is the     *)
(* record with d = 0.  Bars are indexed 0 .. N-1 as in the source          *)
(* (iloc positions); the DataFrame index (timestamps) is the bar number.   *)
(***************************************************************************)
EXTENDS Integers, Sequences, FiniteSets, TLC

VARIABLES
    pc,        \* position of the driver of the specification at hand
    bt,        \* VectorizedBacktester fields: data, initial_capital, commission_rate, slippage_rate
    df,        \* the DataFrame handed from step to step: column name -> series
    trades,    \* ledger returned by _extract_trades (self.trades)
    ind_call,  \* an indicator call: function name, data, periods
    ind_ret,   \* its outcome: the exception raised or the series returned
    cond,      \* condition_str handed to _evaluate_condition, as its expression tree
    cond_ret,  \* outcome of _evaluate_condition: exception raised or signal series
    cfg,       \* arguments of run_backtest: strategy_config and calculate_indicators
    exc,       \* exception in flight in run_backtest, then the one that leaves it
    result,    \* the result bundle run_backtest returns
    calls,     \* history: indicator computations and rule evaluations started so far
    prior,     \* what an earlier run_backtest call of the same inputs returned, if any
    opt,       \* frame of optimize_strategy: arguments, param_combinations, i, results
    out,       \* what optimize_strategy returned
    memo,      \* backtests done so far: configuration -> outcome of run_backtest on the market data
    log,       \* history: the configurations handed to run_backtest by the optimizer, in order
    imp,       \* frame of autonomous_improve: arguments, gen, generations, current_config
    db,        \* the database session: strategies stored, records added, commits, rollbacks
    ret        \* what autonomous_improve returned

pipevars == <<pc, bt, df, trades, ind_call, ind_ret, cond, cond_ret, cfg, exc, result, calls>>

indvars == <<ind_call, ind_ret>>

condvars == <<cond, cond_ret>>

runvars == <<cfg, exc, result, calls>>

\* everything of the backtester's runs but the driver's position
pipevars_rest == <<bt, df, trades, ind_call, ind_ret, cond, cond_ret, cfg, exc, result, calls>>

optvars == <<opt, out, memo, log>>

impvars == <<imp, db, ret>>

----------------------------------------------------------------------------
(* Bounds of the model                                                     *)

MaxBars == 4

\* longest series and largest period handed to an indicator (SpecInd)
MaxLen == 4

MaxPeriod == 4

\* longest frame handed to _evaluate_condition alone (SpecCond)
MaxCondBars == 2

----------------------------------------------------------------------------
(* Numbers                                                                 *)

Abs(x) == IF x < 0 THEN -x ELSE x

RECURSIVE GCD(_, _)
GCD(a, b) == IF b = 0 THEN a ELSE GCD(b, a % b)

\* the rational n/d, d > 0, in lowest terms
Rat(n, d) ==
    LET g == GCD(Abs(n), d)
    IN  [n |-> n \div g, d |-> d \div g]

NaN == [n |-> 0, d |-> 0]

IsNaN(x) == x.d = 0

Int2Rat(k) == [n |-> k, d |-> 1]

Zero == Int2Rat(0)

One == Int2Rat(1)

\* over the least common denominator, to keep intermediate products small
RAdd(a, b) ==
    IF IsNaN(a) \/ IsNaN(b) THEN NaN
    ELSE LET g == GCD(a.d, b.d)
         IN  Rat(a.n * (b.d \div g) + b.n * (a.d \div g), (a.d \div g) * b.d)

RNeg(a) == IF IsNaN(a) THEN NaN ELSE [n |-> -a.n, d |-> a.d]

RSub(a, b) == RAdd(a, RNeg(b))

\* cross-cancelled before multiplying, to keep intermediate products small
RMul(a, b) ==
    IF IsNaN(a) \/ IsNaN(b) THEN NaN
    ELSE LET g1 == GCD(Abs(a.n), b.d)
             g2 == GCD(Abs(b.n), a.d)
         IN  [n |-> (a.n \div g1) * (b.n \div g2), d |-> (a.d \div g2) * (b.d \div g1)]

\* b # 0 (prices are positive)
RDiv(a, b) ==
    IF IsNaN(a) \/ IsNaN(b) THEN NaN
    ELSE IF b.n > 0 THEN RMul(a, [n |-> b.d, d |-> b.n])
    ELSE RMul(a, [n |-> -b.d, d |-> -b.n])

\* IEEE comparisons: every comparison with NaN is false, except != which is true
REq(a, b) == ~IsNaN(a) /\ ~IsNaN(b) /\ a.n * b.d = b.n * a.d

RNe(a, b) == ~REq(a, b)

RLt(a, b) == ~IsNaN(a) /\ ~IsNaN(b) /\ a.n * b.d < b.n * a.d

RLe(a, b) == ~IsNaN(a) /\ ~IsNaN(b) /\ a.n * b.d <= b.n * a.d

----------------------------------------------------------------------------
(* Series helpers (pandas)                                                 *)

Bars(d) == DOMAIN d.Close

NBars(d) == Cardinality(Bars(d))

\* Series.shift(1)
Shift1(s) == [i \in DOMAIN s |-> IF i = 0 THEN NaN ELSE s[i - 1]]

\* Series.diff() of an integer series
Diff(s) == [i \in DOMAIN s |-> IF i = 0 THEN NaN ELSE Int2Rat(s[i] - s[i - 1])]

\* Series.pct_change()
PctChange(s) == [i \in DOMAIN s |-> IF i = 0 THEN NaN ELSE RSub(RDiv(s[i], s[i - 1]), One)]

\* product of the defined cells among lo .. hi, by halves of the range
RECURSIVE ProdRange(_, _, _)
ProdRange(s, lo, hi) ==
    IF hi < lo THEN One
    ELSE IF lo = hi THEN (IF IsNaN(s[lo]) THEN One ELSE s[lo])
    ELSE LET mid == (lo + hi) \div 2
         IN  RMul(ProdRange(s, lo, mid), ProdRange(s, mid + 1, hi))

\* Series.cumprod(): NaN cells are skipped and stay NaN
CumProdAt(s, i) == ProdRange(s, 0, i)

CumProd(s) == [i \in DOMAIN s |-> IF IsNaN(s[i]) THEN NaN ELSE CumProdAt(s, i)]

----------------------------------------------------------------------------
(* VectorizedBacktester._generate_signals, the position loop               *)

\* mutant: the exit test is a second `if` instead of `elif`
PositionStep_TwoIfs(position, entry_signal, exit_signal) ==
    LET entered == IF entry_signal = 1 /\ position = 0 THEN 1 ELSE position
    IN  IF exit_signal = 1 /\ entered = 1 THEN 0 ELSE entered

\* one iteration of the loop: the position after a bar, from the position before it
PositionStep(position, entry_signal, exit_signal) ==
    IF entry_signal = 1 /\ position = 0 THEN 1
    ELSE IF exit_signal = 1 /\ position = 1 THEN 0
    ELSE position

\* the iterations for bars lo .. hi in order, entered with `position`; the range
\* is walked by halves, the first half finished before the second starts
RECURSIVE PositionScan(_, _, _, _, _)
PositionScan(entry, exit, lo, hi, position) ==
    IF hi < lo THEN position
    ELSE IF lo = hi THEN PositionStep(position, entry[lo], exit[lo])
    ELSE LET mid == (lo + hi) \div 2
             half == PositionScan(entry, exit, lo, mid, position)
         IN  IF half = 0
             THEN PositionScan(entry, exit, mid + 1, hi, 0)
             ELSE PositionScan(entry, exit, mid + 1, hi, 1)

\* position after bars 0 .. i, starting flat
PositionAfter(entry, exit, i) == PositionScan(entry, exit, 0, i, 0)

signals(entry, exit) == [i \in DOMAIN entry |-> PositionAfter(entry, exit, i)]

----------------------------------------------------------------------------
(* VectorizedBacktester._calculate_returns                                 *)

Market_Returns(d) == PctChange(d.Close)

Position_Change(d) == Diff(d.Signal)

\* mutant: the bar's own position instead of the previous bar's
Strategy_Returns_SameBar(d) ==
    [i \in Bars(d) |-> RMul(PctChange(d.Close)[i], Int2Rat(d.Signal[i]))]

Strategy_Returns(d) ==
    LET prev == Shift1([i \in Bars(d) |-> Int2Rat(d.Signal[i])])
    IN  [i \in Bars(d) |-> RMul(Market_Returns(d)[i], prev[i])]

Trading_Costs(b, d) ==
    [i \in Bars(d) |->
        IF RNe(Position_Change(d)[i], Zero)
        THEN RAdd(b.commission_rate, b.slippage_rate)
        ELSE Zero]

Net_Returns(b, d) == [i \in Bars(d) |-> RSub(Strategy_Returns(d)[i], Trading_Costs(b, d)[i])]

calculate_returns(b, d) ==
    LET cum  == CumProd([i \in Bars(d) |-> RAdd(One, Net_Returns(b, d)[i])])
        cumm == CumProd([i \in Bars(d) |-> RAdd(One, Market_Returns(d)[i])])
    IN  [Close |-> d.Close,
         Entry_Signal |-> d.Entry_Signal,
         Exit_Signal |-> d.Exit_Signal,
         Signal |-> d.Signal,
         Market_Returns |-> Market_Returns(d),
         Position_Change |-> Position_Change(d),
         Strategy_Returns |-> Strategy_Returns(d),
         Trading_Costs |-> Trading_Costs(b, d),
         Net_Returns |-> Net_Returns(b, d),
         Cumulative_Returns |-> cum,
         Cumulative_Market_Returns |-> cumm,
         Equity |-> [i \in Bars(d) |-> RMul(Int2Rat(b.initial_capital), cum[i])],
         Market_Equity |-> [i \in Bars(d) |-> RMul(Int2Rat(b.initial_capital), cumm[i])]]

----------------------------------------------------------------------------
(* VectorizedBacktester._extract_trades                                    *)

NoEntry == -1

\* mutant: the cost is charged for one leg only
Trade_OneLeg(b, d, entry_idx, entry_price, exit_idx) ==
    LET exit_price   == d.Close[exit_idx]
        trade_return == RSub(RDiv(RSub(exit_price, entry_price), entry_price),
                             RAdd(b.commission_rate, b.slippage_rate))
    IN  [entry_date |-> entry_idx,
         exit_date |-> exit_idx,
         entry_price |-> entry_price,
         exit_price |-> exit_price,
         return |-> trade_return,
         profit_loss |-> RMul(trade_return, Int2Rat(b.initial_capital)),
         duration |-> exit_idx - entry_idx,
         type |-> "LONG"]

\* the trade appended at an exit
Trade(b, d, entry_idx, entry_price, exit_idx) ==
    LET exit_price   == d.Close[exit_idx]
        trade_return == RSub(RDiv(RSub(exit_price, entry_price), entry_price),
                             RMul(RAdd(b.commission_rate, b.slippage_rate), Int2Rat(2)))
    IN  [entry_date |-> entry_idx,
         exit_date |-> exit_idx,
         entry_price |-> entry_price,
         exit_price |-> exit_price,
         return |-> trade_return,
         profit_loss |-> RMul(trade_return, Int2Rat(b.initial_capital)),
         duration |-> exit_idx - entry_idx,
         type |-> "LONG"]

\* mutant: in_position is not reset at an exit
TradeStep_NoReset(b, d, s, idx) ==
    LET position_change == d.Position_Change[idx]
    IN  IF REq(position_change, One) /\ ~s.in_position
        THEN [s EXCEPT !.in_position = TRUE,
                       !.entry_idx = idx,
                       !.entry_price = d.Close[idx]]
        ELSE IF REq(position_change, Int2Rat(-1)) /\ s.in_position
        THEN [s EXCEPT !.trades = Append(@, Trade(b, d, s.entry_idx, s.entry_price, idx))]
        ELSE s

\* one iteration of the loop: its local state after bar idx, from the state s before
TradeStep(b, d, s, idx) ==
    LET position_change == d.Position_Change[idx]
    IN  IF REq(position_change, One) /\ ~s.in_position
        THEN [s EXCEPT !.in_position = TRUE,
                       !.entry_idx = idx,
                       !.entry_price = d.Close[idx]]
        ELSE IF REq(position_change, Int2Rat(-1)) /\ s.in_position
        THEN [s EXCEPT !.trades = Append(@, Trade(b, d, s.entry_idx, s.entry_price, idx)),
                       !.in_position = FALSE]
        ELSE s

\* the iterations for bars lo .. hi in order, entered with state s; the range is
\* walked by halves, the first half finished before the second starts
RECURSIVE ScanRange(_, _, _, _, _)
ScanRange(b, d, lo, hi, s) ==
    IF hi < lo THEN s
    ELSE IF lo = hi THEN TradeStep(b, d, s, lo)
    ELSE LET mid == (lo + hi) \div 2
             half == ScanRange(b, d, lo, mid, s)
         IN  IF half.in_position
             THEN ScanRange(b, d, mid + 1, hi, [half EXCEPT !.in_position = TRUE])
             ELSE ScanRange(b, d, mid + 1, hi, [half EXCEPT !.in_position = FALSE])

\* the loop's local state after bars 0 .. idx
ScanTrades(b, d, idx) ==
    ScanRange(b, d, 0, idx,
              [trades |-> <<>>, in_position |-> FALSE, entry_idx |-> NoEntry, entry_price |-> NaN])

\* mutant: a position still pending after the last bar is closed at the last close
extract_trades_MarkToMarket(b, d) ==
    LET s == ScanTrades(b, d, NBars(d) - 1)
    IN  IF s.in_position
        THEN Append(s.trades, Trade(b, d, s.entry_idx, s.entry_price, NBars(d) - 1))
        ELSE s.trades

extract_trades(b, d) == ScanTrades(b, d, NBars(d) - 1).trades

----------------------------------------------------------------------------
(* Exceptions: type, message (pieces of text, str(e)) and __context__      *)

NoExc == [type |-> "None", msg |-> <<>>, context |-> "None"]

Raise(type, msg) == [type |-> type, msg |-> msg, context |-> "None"]

\* raise type(msg) inside `except ... as e`
RaiseFrom(type, msg, e) == [type |-> type, msg |-> msg, context |-> e.type]

Range(seq) == {seq[i] : i \in DOMAIN seq}

----------------------------------------------------------------------------
(* TechnicalIndicators (indicators.py)                                     *)

SLen(s) == Cardinality(DOMAIN s)

\* sum of the cells lo .. hi, by halves of the range
RECURSIVE SumRange(_, _, _)
SumRange(s, lo, hi) ==
    IF hi < lo THEN Zero
    ELSE IF lo = hi THEN s[lo]
    ELSE LET mid == (lo + hi) \div 2
         IN  RAdd(SumRange(s, lo, mid), SumRange(s, mid + 1, hi))

\* mutant: min_periods = 1, the mean of the cells seen so far
RollingMean_Partial(s, window) ==
    [i \in DOMAIN s |->
        IF i < window - 1 THEN RDiv(SumRange(s, 0, i), Int2Rat(i + 1))
        ELSE RDiv(SumRange(s, i - window + 1, i), Int2Rat(window))]

\* Series.rolling(window, min_periods = window).mean()
RollingMean(s, window) ==
    [i \in DOMAIN s |->
        IF i < window - 1 THEN NaN
        ELSE RDiv(SumRange(s, i - window + 1, i), Int2Rat(window))]

\* square of Series.rolling(window, min_periods = window).std(), ddof = 1
\* (undefined for window = 1: 0/0)
RollingVar(s, window) ==
    [i \in DOMAIN s |->
        IF i < window - 1 \/ window = 1 THEN NaN
        ELSE LET m == RDiv(SumRange(s, i - window + 1, i), Int2Rat(window))
                 sq == [j \in DOMAIN s |-> RMul(RSub(s[j], m), RSub(s[j], m))]
             IN  RDiv(SumRange(sq, i - window + 1, i), Int2Rat(window - 1))]

\* number of defined cells among 0 .. i
RECURSIVE Observed(_, _)
Observed(s, i) == IF i < 0 THEN 0 ELSE Observed(s, i - 1) + (IF IsNaN(s[i]) THEN 0 ELSE 1)

\* the recurrence of Series.ewm(alpha, adjust = False).mean(): seeded with the
\* first defined cell, y[i] = (1 - alpha) * y[i-1] + alpha * x[i]
RECURSIVE EwmAt(_, _, _)
EwmAt(s, alpha, i) ==
    IF i < 0 THEN NaN
    ELSE IF IsNaN(s[i]) THEN EwmAt(s, alpha, i - 1)
    ELSE LET prev == EwmAt(s, alpha, i - 1)
         IN  IF IsNaN(prev) THEN s[i]
             ELSE RAdd(RMul(RSub(One, alpha), prev), RMul(alpha, s[i]))

Ewm(s, alpha, min_periods) ==
    [i \in DOMAIN s |-> IF Observed(s, i) < min_periods THEN NaN ELSE EwmAt(s, alpha, i)]

\* span = period: alpha = 2 / (period + 1)
SpanAlpha(period) == Rat(2, period + 1)

InsufficientMsg(name, need, got) ==
    <<"Insufficient data for ", name, " calculation. Need at least ", ToString(need),
      " points, got ", ToString(got)>>

\* the `except Exception as e` clause that closes every indicator
IndicatorExcept(name, e) ==
    RaiseFrom("IndicatorCalculationError", <<"Error calculating ", name, ": ">> \o e.msg, e)

Returned(value) == [raised |-> NoExc, value |-> value]

Failed(e) == [raised |-> e, value |-> <<>>]

sma(data, period) ==
    IF SLen(data) < period
    THEN Failed(IndicatorExcept("SMA",
            Raise("InsufficientDataError", InsufficientMsg("SMA", period, SLen(data)))))
    ELSE Returned(RollingMean(data, period))

ema(data, period) ==
    IF SLen(data) < period
    THEN Failed(IndicatorExcept("EMA",
            Raise("InsufficientDataError", InsufficientMsg("EMA", period, SLen(data)))))
    ELSE Returned(Ewm(data, SpanAlpha(period), period))

Hundred == Int2Rat(100)

\* mutant: the undefined cells are left as they are (no fillna(100))
rsi_NoFill(data, period) ==
    IF SLen(data) < period + 1
    THEN Failed(IndicatorExcept("RSI",
            Raise("InsufficientDataError", InsufficientMsg("RSI", period + 1, SLen(data)))))
    ELSE LET delta  == [i \in DOMAIN data |-> IF i = 0 THEN NaN ELSE RSub(data[i], data[i - 1])]
             gains  == [i \in DOMAIN data |-> IF RLt(Zero, delta[i]) THEN delta[i] ELSE Zero]
             losses == [i \in DOMAIN data |-> IF RLt(delta[i], Zero) THEN RNeg(delta[i]) ELSE Zero]
             avg_gains  == Ewm(gains, Rat(1, period), period)
             avg_losses == Ewm(losses, Rat(1, period), period)
         IN  Returned([i \in DOMAIN data |->
                 IF IsNaN(avg_gains[i]) \/ IsNaN(avg_losses[i]) THEN NaN
                 ELSE IF avg_losses[i] = Zero
                 THEN (IF avg_gains[i] = Zero THEN NaN ELSE Hundred)
                 ELSE RSub(Hundred,
                           RDiv(Hundred, RAdd(One, RDiv(avg_gains[i], avg_losses[i]))))])

rsi(data, period) ==
    IF SLen(data) < period + 1
    THEN Failed(IndicatorExcept("RSI",
            Raise("InsufficientDataError", InsufficientMsg("RSI", period + 1, SLen(data)))))
    ELSE LET delta  == [i \in DOMAIN data |-> IF i = 0 THEN NaN ELSE RSub(data[i], data[i - 1])]
             gains  == [i \in DOMAIN data |-> IF RLt(Zero, delta[i]) THEN delta[i] ELSE Zero]
             losses == [i \in DOMAIN data |-> IF RLt(delta[i], Zero) THEN RNeg(delta[i]) ELSE Zero]
             avg_gains  == Ewm(gains, Rat(1, period), period)
             avg_losses == Ewm(losses, Rat(1, period), period)
         IN  Returned([i \in DOMAIN data |->
                 \* NaN (also 0/0) is filled with 100; x/0 is inf and 100/(1+inf) is 0
                 IF IsNaN(avg_gains[i]) \/ IsNaN(avg_losses[i]) THEN Hundred
                 ELSE IF avg_losses[i] = Zero THEN Hundred
                 ELSE RSub(Hundred,
                           RDiv(Hundred, RAdd(One, RDiv(avg_gains[i], avg_losses[i]))))])

macd(data, fast_period, slow_period, signal_period) ==
    IF SLen(data) < slow_period + signal_period
    THEN Failed(IndicatorExcept("MACD",
            Raise("InsufficientDataError",
                  InsufficientMsg("MACD", slow_period + signal_period, SLen(data)))))
    ELSE LET ema_fast == Ewm(data, SpanAlpha(fast_period), fast_period)
             ema_slow == Ewm(data, SpanAlpha(slow_period), slow_period)
             macd_line == [i \in DOMAIN data |-> RSub(ema_fast[i], ema_slow[i])]
             signal_line == Ewm(macd_line, SpanAlpha(signal_period), signal_period)
             histogram == [i \in DOMAIN data |-> RSub(macd_line[i], signal_line[i])]
         IN  Returned(<<macd_line, signal_line, histogram>>)

\* A band is middle + k * sqrt(sq): the standard deviation is irrational and
\* is carried by its square.
bollinger_bands(data, period, num_std) ==
    IF SLen(data) < period
    THEN Failed(IndicatorExcept("Bollinger Bands",
            Raise("InsufficientDataError",
                  InsufficientMsg("Bollinger Bands", period, SLen(data)))))
    ELSE LET middle_band == RollingMean(data, period)
             var == RollingVar(data, period)
             upper_band == [i \in DOMAIN data |-> [mid |-> middle_band[i], k |-> num_std, sq |-> var[i]]]
             lower_band == [i \in DOMAIN data |-> [mid |-> middle_band[i], k |-> RNeg(num_std), sq |-> var[i]]]
         IN  Returned(<<upper_band, middle_band, lower_band>>)

----------------------------------------------------------------------------
(* Rules.  A condition string is held as the expression tree Python's eval *)
(* builds from it; Render gives back the pieces of its text.               *)

Col(c) == [op |-> "col", name |-> c]

Lit(k) == [op |-> "lit", value |-> k]

ShiftE(e, k) == [op |-> "shift", arg |-> e, periods |-> k]

AbsE(e) == [op |-> "abs", arg |-> e]

Cmp(o, l, r) == [op |-> "cmp", cmp |-> o, left |-> l, right |-> r]

\* `&`, `|`, `and`, `or`
Bin(o, l, r) == [op |-> o, left |-> l, right |-> r]

\* `~`, `not`
Un(o, e) == [op |-> o, arg |-> e]

\* condition is None or ''
NoneRule == [op |-> "None"]

CmpOps == {">", "<", ">=", "<=", "==", "!="}

RECURSIVE Render(_)
Render(e) ==
    CASE e.op = "col" -> <<e.name>>
      [] e.op = "lit" -> <<ToString(e.value)>>
      [] e.op = "shift" -> Render(e.arg) \o <<".shift(", ToString(e.periods), ")">>
      [] e.op = "abs" -> <<"abs(">> \o Render(e.arg) \o <<")">>
      [] e.op = "cmp" -> <<"(">> \o Render(e.left) \o <<e.cmp>> \o Render(e.right) \o <<")">>
      [] e.op \in {"&", "|", "and", "or"} ->
            <<"(">> \o Render(e.left) \o <<e.op>> \o Render(e.right) \o <<")">>
      [] e.op \in {"~", "not"} -> <<e.op>> \o Render(e.arg)
      [] OTHER -> <<>>

\* the column names a rule refers to
RECURSIVE Names(_)
Names(e) ==
    CASE e.op = "col" -> {e.name}
      [] e.op \in {"shift", "abs", "~", "not"} -> Names(e.arg)
      [] e.op \in {"cmp", "&", "|", "and", "or"} -> Names(e.left) \cup Names(e.right)
      [] OTHER -> {}

----------------------------------------------------------------------------
(* Values of the evaluation: a Series or a Python scalar, boolean or number *)

NumSeries(f) == [series |-> TRUE, isbool |-> FALSE, s |-> f, x |-> Zero, t |-> FALSE]

BoolSeries(f) == [series |-> TRUE, isbool |-> TRUE, s |-> f, x |-> Zero, t |-> FALSE]

NumScalar(x) == [series |-> FALSE, isbool |-> FALSE, s |-> <<>>, x |-> x, t |-> FALSE]

BoolScalar(t) == [series |-> FALSE, isbool |-> TRUE, s |-> <<>>, x |-> Zero, t |-> t]

B2R(b) == IF b THEN One ELSE Zero

\* the number in cell i (a scalar is broadcast; True is 1)
NumCell(v, i) ==
    IF v.series
    THEN (IF v.isbool THEN B2R(v.s[i]) ELSE v.s[i])
    ELSE (IF v.isbool THEN B2R(v.t) ELSE v.x)

BoolCell(v, i) == IF v.series THEN v.s[i] ELSE v.t

Compare(o, a, b) ==
    CASE o = ">" -> RLt(b, a)
      [] o = "<" -> RLt(a, b)
      [] o = ">=" -> RLe(b, a)
      [] o = "<=" -> RLe(a, b)
      [] o = "==" -> REq(a, b)
      [] o = "!=" -> RNe(a, b)

RAbs(a) == IF IsNaN(a) THEN NaN ELSE [n |-> Abs(a.n), d |-> a.d]

\* bool(x) of a scalar
Truthy(v) == IF v.isbool THEN v.t ELSE v.x # Zero

Ok(v) == [err |-> NoExc, v |-> v]

Err(type, msg) == [err |-> Raise(type, msg), v |-> NumScalar(Zero)]

AmbiguousTruth ==
    Err("ValueError", <<"The truth value of a Series is ambiguous. Use a.empty, a.bool(), a.item(), a.any() or a.all().">>)

\* eval(condition_str, {"__builtins__": {}}, eval_namespace): operands are
\* evaluated left to right, a name is looked up when it is reached, `and`,
\* `or` and `not` take bool() of their operand (pandas refuses it for a
\* Series) and `and` / `or` skip the right operand when the left decides.
\* `&`, `|`, `~` are modelled on booleans, shift on numeric series.
RECURSIVE Eval(_, _, _)
Eval(e, d, idx) ==
    CASE e.op = "col" ->
            IF e.name \in DOMAIN d THEN Ok(NumSeries(d[e.name]))
            ELSE Err("NameError", <<"name '", e.name, "' is not defined">>)
      [] e.op = "lit" -> Ok(NumScalar(Int2Rat(e.value)))
      [] e.op = "shift" ->
            LET a == Eval(e.arg, d, idx)
            IN  IF a.err # NoExc THEN a
                ELSE IF ~a.v.series
                THEN Err("AttributeError", <<"object has no attribute 'shift'">>)
                ELSE Ok(NumSeries([i \in idx |->
                        IF i - e.periods \in idx THEN NumCell(a.v, i - e.periods) ELSE NaN]))
      [] e.op = "abs" ->
            LET a == Eval(e.arg, d, idx)
            IN  IF a.err # NoExc THEN a
                ELSE IF a.v.series THEN Ok(NumSeries([i \in idx |-> RAbs(NumCell(a.v, i))]))
                ELSE Ok(NumScalar(RAbs(NumCell(a.v, 0))))
      [] e.op = "cmp" ->
            LET a == Eval(e.left, d, idx)
            IN  IF a.err # NoExc THEN a
                ELSE LET b == Eval(e.right, d, idx)
                     IN  IF b.err # NoExc THEN b
                         ELSE IF a.v.series \/ b.v.series
                         THEN Ok(BoolSeries([i \in idx |->
                                 Compare(e.cmp, NumCell(a.v, i), NumCell(b.v, i))]))
                         ELSE Ok(BoolScalar(Compare(e.cmp, NumCell(a.v, 0), NumCell(b.v, 0))))
      [] e.op \in {"&", "|"} ->
            LET a == Eval(e.left, d, idx)
            IN  IF a.err # NoExc THEN a
                ELSE LET b == Eval(e.right, d, idx)
                     IN  IF b.err # NoExc THEN b
                         ELSE IF ~a.v.isbool \/ ~b.v.isbool
                         THEN Err("TypeError", <<"unsupported operand type(s) for ", e.op>>)
                         ELSE IF a.v.series \/ b.v.series
                         THEN Ok(BoolSeries([i \in idx |->
                                 IF e.op = "&" THEN BoolCell(a.v, i) /\ BoolCell(b.v, i)
                                 ELSE BoolCell(a.v, i) \/ BoolCell(b.v, i)]))
                         ELSE Ok(BoolScalar(IF e.op = "&" THEN a.v.t /\ b.v.t ELSE a.v.t \/ b.v.t))
      [] e.op = "~" ->
            LET a == Eval(e.arg, d, idx)
            IN  IF a.err # NoExc THEN a
                ELSE IF a.v.series /\ a.v.isbool THEN Ok(BoolSeries([i \in idx |-> ~a.v.s[i]]))
                ELSE IF a.v.series THEN Err("TypeError", <<"bad operand type for unary ~: 'float'">>)
                \* ~True is -2, ~False is -1, ~k is -(k+1)
                ELSE Ok(NumScalar(RSub(RNeg(NumCell(a.v, 0)), One)))
      [] e.op \in {"and", "or"} ->
            LET a == Eval(e.left, d, idx)
            IN  IF a.err # NoExc THEN a
                ELSE IF a.v.series THEN AmbiguousTruth
                ELSE IF Truthy(a.v) = (e.op = "or") THEN a
                ELSE Eval(e.right, d, idx)
      [] e.op = "not" ->
            LET a == Eval(e.arg, d, idx)
            IN  IF a.err # NoExc THEN a
                ELSE IF a.v.series THEN AmbiguousTruth
                ELSE Ok(BoolScalar(~Truthy(a.v)))
      [] OTHER -> Err("TypeError", <<"eval() arg 1 must be a string, bytes or code object">>)

----------------------------------------------------------------------------
(* VectorizedBacktester._evaluate_condition                                *)

\* result.fillna(False) of the (broadcast) result: a boolean series has no
\* NaN; in a numeric series NaN becomes False, which is the number 0
FillNaFalse(v, idx) ==
    IF v.isbool
    THEN [isbool |-> TRUE, s |-> [i \in idx |-> BoolCell(v, i)]]
    ELSE [isbool |-> FALSE,
          s |-> [i \in idx |-> IF IsNaN(NumCell(v, i)) THEN Zero ELSE NumCell(v, i)]]

evaluate_condition(condition_str, data) ==
    LET r == Eval(condition_str, data, Bars(data))
    IN  IF r.err # NoExc
        THEN Failed(RaiseFrom("InvalidStrategyError",
                <<"Error evaluating condition '">> \o Render(condition_str) \o <<"': ">>
                    \o r.err.msg,
                r.err))
        ELSE Returned(FillNaFalse(r.v, Bars(data)))

----------------------------------------------------------------------------
(* VectorizedBacktester._generate_signals, whole                           *)

\* Series.astype(int): True is 1; a float is truncated toward zero
AsInt(v) ==
    [i \in DOMAIN v.s |->
        IF v.isbool THEN (IF v.s[i] THEN 1 ELSE 0)
        ELSE IF v.s[i].n >= 0 THEN v.s[i].n \div v.s[i].d
        ELSE -((-v.s[i].n) \div v.s[i].d)]

generate_signals(entry_condition, exit_condition, data) ==
    LET entry_signal == evaluate_condition(entry_condition, data)
    IN  IF entry_signal.raised # NoExc THEN entry_signal
        ELSE LET exit_signal == evaluate_condition(exit_condition, data)
             IN  IF exit_signal.raised # NoExc THEN exit_signal
                 ELSE Returned(
                        ("Entry_Signal" :> AsInt(entry_signal.value))
                        @@ ("Exit_Signal" :> AsInt(exit_signal.value))
                        @@ ("Signal" :> signals(AsInt(entry_signal.value), AsInt(exit_signal.value)))
                        @@ data)

----------------------------------------------------------------------------
(* VectorizedBacktester._calculate_indicators                              *)

\* str.upper() on the type names in use
Upper(t) ==
    CASE t = "sma" -> "SMA"
      [] t = "ema" -> "EMA"
      [] t = "rsi" -> "RSI"
      [] t = "macd" -> "MACD"
      [] t = "bb" -> "BB"
      [] t = "bollinger" -> "BOLLINGER"
      [] OTHER -> t

KnownTypes == {"SMA", "EMA", "RSI", "MACD", "BOLLINGER", "BB"}

\* df[name] = result, unless the indicator raised
AddColumn(r, name, d) ==
    IF r.raised # NoExc THEN r ELSE Returned((name :> r.value) @@ d)

\* df[names[1]], df[names[2]], df[names[3]] = result, unless the indicator raised
AddColumns(r, names, d) ==
    IF r.raised # NoExc THEN r
    ELSE Returned((names[1] :> r.value[1]) @@ (names[2] :> r.value[2])
                  @@ (names[3] :> r.value[3]) @@ d)

\* one pass of the loop body: the frame with the indicator's columns added,
\* or the exception the indicator (or df[column]) raised, re-raised as it is
ApplyIndicator(d, config) ==
    LET indicator_type == Upper(config.type)
        period == config.period
        column == config.column
    IN  IF indicator_type \notin KnownTypes THEN Returned(d)
        ELSE IF column \notin DOMAIN d
        THEN Failed(Raise("KeyError", <<"'", column, "'">>))
        ELSE CASE indicator_type = "SMA" ->
                    AddColumn(sma(d[column], period), "SMA_" \o ToString(period), d)
               [] indicator_type = "EMA" ->
                    AddColumn(ema(d[column], period), "EMA_" \o ToString(period), d)
               [] indicator_type = "RSI" ->
                    AddColumn(rsi(d[column], period), "RSI_" \o ToString(period), d)
               [] indicator_type = "MACD" ->
                    AddColumns(macd(d[column], config.fast_period, config.slow_period,
                                    config.signal_period),
                               <<"MACD_Line", "MACD_Signal", "MACD_Histogram">>, d)
               [] OTHER ->
                    AddColumns(bollinger_bands(d[column], period, config.num_std),
                               <<"BB_Upper", "BB_Middle", "BB_Lower">>, d)

\* the loop's state after an iteration whose body ended as r
AfterIndicator(before, config, r) ==
    [raised |-> r.raised,
     value |-> IF r.raised = NoExc THEN r.value ELSE before.value,
     computed |-> IF Upper(config.type) \in KnownTypes
                  THEN Append(before.computed, Upper(config.type))
                  ELSE before.computed]

\* one iteration of the loop, from the state `before` it: an exception ends the
\* loop; computed lists the indicator types whose computation was started
IndicatorStep(before, config) ==
    IF before.raised # NoExc THEN before
    ELSE AfterIndicator(before, config, ApplyIndicator(before.value, config))

\* the loop over the first k configs
RECURSIVE IndicatorLoop(_, _, _)
IndicatorLoop(d, indicators_config, k) ==
    IF k = 0 THEN [raised |-> NoExc, value |-> d, computed |-> <<>>]
    ELSE IndicatorStep(IndicatorLoop(d, indicators_config, k - 1), indicators_config[k])

calculate_indicators(d, indicators_config) ==
    IndicatorLoop(d, indicators_config, Len(indicators_config))

----------------------------------------------------------------------------
(* VectorizedBacktester.run_backtest                                       *)

MinBars == 50

\* mutant: the length test is off by one
TooShort_OffByOne(d) == NBars(d) < MinBars - 1

TooShort(d) == NBars(d) < MinBars

\* mutant: only the first except clause; anything else leaves as it is
run_except_Narrow(e) ==
    IF e.type \in {"InvalidStrategyError", "InsufficientDataError"}
    THEN RaiseFrom("BacktestError", e.msg, e)
    ELSE e

\* the two except clauses
run_except(e) ==
    IF e.type \in {"InvalidStrategyError", "InsufficientDataError"}
    THEN RaiseFrom("BacktestError", e.msg, e)
    ELSE RaiseFrom("BacktestError", <<"Unexpected error during backtest: ">> \o e.msg, e)

\* the metrics of calculate_all_metrics that are rational functions of the
\* returns and the trade returns (metrics.py); the others need roots and
\* powers and are not carried
Defined(s) == {i \in DOMAIN s : ~IsNaN(s[i])}

total_return(returns) ==
    IF Defined(returns) = {} THEN Zero
    ELSE RSub(CumProdAt([i \in DOMAIN returns |-> RAdd(One, returns[i])], SLen(returns) - 1), One)

\* pd.Series([t['return'] for t in self.trades])
trade_returns(ts) == [k \in DOMAIN ts |-> ts[k].return]

Winning(ts) == {k \in DOMAIN ts : RLt(Zero, ts[k].return)}

Losing(ts) == {k \in DOMAIN ts : RLt(ts[k].return, Zero)}

\* float('inf')
Infinity == [inf |-> TRUE]

\* the cells of tr at the positions in keep, summed (Series[mask].sum())
MaskedSum(tr, keep) ==
    SumRange([k \in DOMAIN tr |-> IF k \in keep THEN tr[k] ELSE Zero], 1, Len(tr))

win_rate(ts) ==
    IF Len(ts) = 0 THEN Zero
    ELSE RMul(RDiv(Int2Rat(Cardinality(Winning(ts))), Int2Rat(Len(ts))), Int2Rat(100))

profit_factor(ts) ==
    IF Len(ts) = 0 THEN Zero
    ELSE LET gross_profit == MaskedSum(trade_returns(ts), Winning(ts))
             gross_loss   == RAbs(MaskedSum(trade_returns(ts), Losing(ts)))
         IN  IF REq(gross_loss, Zero)
             THEN (IF RLt(Zero, gross_profit) THEN Infinity ELSE Zero)
             ELSE RDiv(gross_profit, gross_loss)

average_win_loss(ts) ==
    LET avg_win  == IF Cardinality(Winning(ts)) > 0
                    THEN RDiv(MaskedSum(trade_returns(ts), Winning(ts)),
                              Int2Rat(Cardinality(Winning(ts))))
                    ELSE Zero
        avg_loss == IF Cardinality(Losing(ts)) > 0
                    THEN RDiv(MaskedSum(trade_returns(ts), Losing(ts)),
                              Int2Rat(Cardinality(Losing(ts))))
                    ELSE Zero
    IN  [avg_win |-> avg_win,
         avg_loss |-> avg_loss,
         win_loss_ratio |-> IF RNe(avg_loss, Zero) THEN RAbs(RDiv(avg_win, avg_loss)) ELSE Zero]

\* the trade-level metrics of a non-empty trade_returns
TradeMetrics(ts) ==
    [num_trades |-> Len(ts),
     win_rate |-> win_rate(ts),
     profit_factor |-> profit_factor(ts),
     num_winning_trades |-> Cardinality(Winning(ts)),
     num_losing_trades |-> Cardinality(Losing(ts))]
    @@ average_win_loss(ts)

\* the default values set when trade_returns is None or empty
DefaultTradeMetrics ==
    [num_trades |-> 0,
     win_rate |-> Zero,
     profit_factor |-> Zero,
     avg_win |-> Zero,
     avg_loss |-> Zero,
     win_loss_ratio |-> Zero,
     num_winning_trades |-> 0,
     num_losing_trades |-> 0]

\* mutant: with no trades there is no loss, and the profit factor is left infinite
calculate_all_metrics_InfProfitFactor(returns, ts, initial_capital) ==
    [total_return |-> total_return(returns),
     initial_capital |-> initial_capital,
     final_capital |-> RMul(Int2Rat(initial_capital), RAdd(One, total_return(returns)))]
    @@ (IF Len(ts) > 0 THEN TradeMetrics(ts)
        ELSE [DefaultTradeMetrics EXCEPT !.profit_factor = Infinity])

\* ts is self.trades: run_backtest passes None for an empty ledger, and None
\* and an empty series both take the default branch
calculate_all_metrics(returns, ts, initial_capital) ==
    [total_return |-> total_return(returns),
     initial_capital |-> initial_capital,
     final_capital |-> RMul(Int2Rat(initial_capital), RAdd(One, total_return(returns)))]
    @@ (IF Len(ts) > 0 THEN TradeMetrics(ts) ELSE DefaultTradeMetrics)

NoResult == [success |-> FALSE]

\* no earlier run
NoPrior == [ran |-> FALSE]

\* no call of the optimizer in progress
NoFrame == [fn |-> "none"]

OptIdle == opt = NoFrame /\ out = NoResult /\ memo = <<>> /\ log = <<>>

ImpIdle == imp = NoFrame /\ db = NoFrame /\ ret = NoResult

\* strategy_config[key].get('condition'), key present or not
Rules(present, condition) == [present |-> present, condition |-> condition]

\* the first failure of reading the two conditions, if any
ReadConditions(c) ==
    IF ~c.entry_rules.present THEN Raise("KeyError", <<"'entry_rules'">>)
    ELSE IF ~c.exit_rules.present THEN Raise("KeyError", <<"'exit_rules'">>)
    ELSE IF c.entry_rules.condition = NoneRule \/ c.exit_rules.condition = NoneRule
    THEN Raise("InvalidStrategyError", <<"Missing entry or exit conditions">>)
    ELSE NoExc

RunCheckLength ==
    /\ pc = "run_backtest"
    /\ df' = bt.data
    /\ IF TooShort(bt.data)
       THEN /\ exc' = Raise("InsufficientDataError",
                            <<"Insufficient data for backtesting (minimum 50 periods)">>)
            /\ pc' = "except"
       ELSE /\ exc' = exc
            /\ pc' = "indicators"
    /\ UNCHANGED <<bt, prior, optvars, impvars, trades, indvars, condvars, cfg, result, calls>>

RunCalculateIndicators ==
    /\ pc = "indicators"
    /\ IF cfg.calculate_indicators
       THEN \E r \in {calculate_indicators(df, cfg.strategy_config.indicators)} :
                /\ calls' = calls \o r.computed
                /\ df' = r.value
                /\ exc' = r.raised
                /\ pc' = IF r.raised = NoExc THEN "conditions" ELSE "except"
       ELSE /\ pc' = "conditions"
            /\ UNCHANGED <<df, exc, calls>>
    /\ UNCHANGED <<bt, prior, optvars, impvars, trades, indvars, condvars, cfg, result>>

RunReadConditions ==
    /\ pc = "conditions"
    /\ exc' = ReadConditions(cfg.strategy_config)
    /\ pc' = IF exc' = NoExc THEN "signals" ELSE "except"
    /\ UNCHANGED <<bt, prior, optvars, impvars, df, trades, indvars, condvars, cfg, result, calls>>

RunGenerateSignals ==
    /\ pc = "signals"
    /\ LET entry == cfg.strategy_config.entry_rules.condition
           exit  == cfg.strategy_config.exit_rules.condition
           r     == generate_signals(entry, exit, df)
       IN  /\ calls' = calls \o (IF evaluate_condition(entry, df).raised = NoExc
                                 THEN <<"entry_condition", "exit_condition">>
                                 ELSE <<"entry_condition">>)
           /\ exc' = r.raised
           /\ df' = IF r.raised = NoExc THEN r.value ELSE df
           /\ pc' = IF r.raised = NoExc THEN "returns" ELSE "except"
    /\ UNCHANGED <<bt, prior, optvars, impvars, trades, indvars, condvars, cfg, result>>

RunCalculateReturns ==
    /\ pc = "returns"
    /\ df' = calculate_returns(bt, df) @@ df
    /\ pc' = "extract"
    /\ UNCHANGED <<bt, prior, optvars, impvars, trades, indvars, condvars, runvars>>

\* mutant: the trades of the run are appended to self.trades
RunExtractTrades_Append ==
    /\ pc = "extract"
    /\ trades' = trades \o extract_trades(bt, df)
    /\ pc' = "metrics"
    /\ UNCHANGED <<bt, prior, optvars, impvars, df, indvars, condvars, runvars>>

RunExtractTrades ==
    /\ pc = "extract"
    /\ trades' = extract_trades(bt, df)
    /\ pc' = "metrics"
    /\ UNCHANGED <<bt, prior, optvars, impvars, df, indvars, condvars, runvars>>

\* metrics and the result dictionary; turnover and the average duration stay
\* 0.0: the trades carry no 'quantity', 'entry_time' or 'exit_time'
RunReturn ==
    /\ pc = "metrics"
    /\ result' = [success |-> TRUE,
                  metrics |-> calculate_all_metrics(df.Net_Returns, trades, bt.initial_capital)
                              @@ [turnover |-> Zero, avg_trade_duration_seconds |-> Zero],
                  num_trades |-> Len(trades),
                  trades |-> trades,
                  equity_curve |-> [Equity |-> df.Equity, Market_Equity |-> df.Market_Equity],
                  data_points |-> NBars(df)]
    /\ pc' = "returned"
    /\ UNCHANGED <<bt, prior, optvars, impvars, df, trades, indvars, condvars, cfg, exc, calls>>

RunExcept ==
    /\ pc = "except"
    /\ exc' = run_except(exc)
    /\ pc' = "raised"
    /\ UNCHANGED <<bt, prior, optvars, impvars, df, trades, indvars, condvars, cfg, result, calls>>

\* a second call of run_backtest with the same strategy configuration, on the
\* same instance (self.trades still holds the first ledger) or on a fresh
\* backtester over the same data; the history of calls starts anew
RunAgain ==
    /\ pc \in {"returned", "raised"}
    /\ prior = NoPrior
    /\ \E fresh \in BOOLEAN :
          /\ prior' = [ran |-> TRUE, fresh |-> fresh, result |-> result,
                       trades |-> trades, exc |-> exc]
          /\ trades' = IF fresh THEN <<>> ELSE trades
    /\ pc' = "run_backtest"
    /\ df' = [Close |-> <<>>]
    /\ exc' = NoExc
    /\ result' = NoResult
    /\ calls' = <<>>
    /\ UNCHANGED <<bt, indvars, condvars, cfg, optvars, impvars>>

----------------------------------------------------------------------------
(* Spec: the three pipeline steps applied to every small input             *)

Prices == {Int2Rat(1), Int2Rat(2)}

Lengths == 0..MaxBars

\* (commission_rate, slippage_rate) pairs
CostRates == {<<Zero, Zero>>, <<Rat(1, 4), Rat(1, 4)>>}

Capitals == {1000}

NoCall == [fn |-> "none"]

IndIdle == ind_call = NoCall /\ ind_ret = Returned(<<>>)

CondIdle == cond = NoneRule /\ cond_ret = Returned(<<>>)

RunIdle ==
    /\ cfg = [calculate_indicators |-> TRUE]
    /\ exc = NoExc
    /\ result = NoResult
    /\ calls = <<>>

Init ==
    /\ pc = "signals"
    /\ \E r \in CostRates, c \in Capitals :
          bt = [initial_capital |-> c, commission_rate |-> r[1], slippage_rate |-> r[2]]
    /\ \E n \in Lengths :
          \E close \in [0..(n - 1) -> Prices],
             entry \in [0..(n - 1) -> {0, 1}],
             exit \in [0..(n - 1) -> {0, 1}] :
                df = [Close |-> close, Entry_Signal |-> entry, Exit_Signal |-> exit]
    /\ trades = <<>>
    /\ IndIdle
    /\ CondIdle
    /\ RunIdle
    /\ prior = NoPrior
    /\ OptIdle
    /\ ImpIdle

GenerateSignals ==
    /\ pc = "signals"
    /\ df' = [Close |-> df.Close,
              Entry_Signal |-> df.Entry_Signal,
              Exit_Signal |-> df.Exit_Signal,
              Signal |-> signals(df.Entry_Signal, df.Exit_Signal)]
    /\ pc' = "returns"
    /\ UNCHANGED <<bt, prior, optvars, impvars, trades, indvars, condvars, runvars>>

CalculateReturns ==
    /\ pc = "returns"
    /\ df' = calculate_returns(bt, df)
    /\ pc' = "trades"
    /\ UNCHANGED <<bt, prior, optvars, impvars, trades, indvars, condvars, runvars>>

ExtractTrades ==
    /\ pc = "trades"
    /\ trades' = extract_trades(bt, df)
    /\ pc' = "done"
    /\ UNCHANGED <<bt, prior, optvars, impvars, df, indvars, condvars, runvars>>

Next == GenerateSignals \/ CalculateReturns \/ ExtractTrades

vars == <<pc, bt, df, trades, ind_call, ind_ret, cond, cond_ret, cfg, exc, result, calls,
          prior, opt, out, memo, log, imp, db, ret>>

Spec == Init /\ [][Next]_vars

----------------------------------------------------------------------------
(* SpecInd: each indicator called on every small series                    *)

IndData == UNION {[0..(n - 1) -> Prices] : n \in 0..MaxLen}

\* series with missing values and zero prices, for rsi
GappyData ==
    {data \in UNION {[0..(n - 1) -> Prices \cup {NaN, Zero}] : n \in 0..MaxLen} :
        \E i \in DOMAIN data : data[i] \notin Prices}

Periods == 1..MaxPeriod

NumStds == {Int2Rat(2), Int2Rat(0), Int2Rat(-1)}

PipeIdle ==
    /\ bt = [initial_capital |-> 1000, commission_rate |-> Zero, slippage_rate |-> Zero]
    /\ df = [Close |-> <<>>]
    /\ trades = <<>>

InitInd ==
    /\ pc = "call"
    /\ PipeIdle
    /\ CondIdle
    /\ RunIdle
    /\ prior = NoPrior
    /\ OptIdle
    /\ ImpIdle
    /\ ind_ret = Returned(<<>>)
    /\ \/ \E data \in IndData :
             \/ \E fn \in {"sma", "ema", "rsi"}, period \in Periods :
                   ind_call = [fn |-> fn, data |-> data, period |-> period]
             \/ \E fast \in Periods, slow \in Periods, sig \in Periods :
                   ind_call = [fn |-> "macd", data |-> data, fast_period |-> fast,
                               slow_period |-> slow, signal_period |-> sig]
             \/ \E period \in Periods, k \in NumStds :
                   ind_call = [fn |-> "bollinger_bands", data |-> data, period |-> period,
                               num_std |-> k]
       \/ \E data \in GappyData, period \in Periods :
             ind_call = [fn |-> "rsi", data |-> data, period |-> period]

CallSma ==
    /\ pc = "call" /\ ind_call.fn = "sma"
    /\ ind_ret' = sma(ind_call.data, ind_call.period)
    /\ pc' = "called"
    /\ UNCHANGED <<bt, prior, optvars, impvars, df, trades, ind_call, condvars, runvars>>

CallEma ==
    /\ pc = "call" /\ ind_call.fn = "ema"
    /\ ind_ret' = ema(ind_call.data, ind_call.period)
    /\ pc' = "called"
    /\ UNCHANGED <<bt, prior, optvars, impvars, df, trades, ind_call, condvars, runvars>>

CallRsi ==
    /\ pc = "call" /\ ind_call.fn = "rsi"
    /\ ind_ret' = rsi(ind_call.data, ind_call.period)
    /\ pc' = "called"
    /\ UNCHANGED <<bt, prior, optvars, impvars, df, trades, ind_call, condvars, runvars>>

CallMacd ==
    /\ pc = "call" /\ ind_call.fn = "macd"
    /\ ind_ret' = macd(ind_call.data, ind_call.fast_period, ind_call.slow_period,
                       ind_call.signal_period)
    /\ pc' = "called"
    /\ UNCHANGED <<bt, prior, optvars, impvars, df, trades, ind_call, condvars, runvars>>

CallBollingerBands ==
    /\ pc = "call" /\ ind_call.fn = "bollinger_bands"
    /\ ind_ret' = bollinger_bands(ind_call.data, ind_call.period, ind_call.num_std)
    /\ pc' = "called"
    /\ UNCHANGED <<bt, prior, optvars, impvars, df, trades, ind_call, condvars, runvars>>

NextInd == CallSma \/ CallEma \/ CallRsi \/ CallMacd \/ CallBollingerBands

SpecInd == InitInd /\ [][NextInd]_vars

\* the minimum length each indicator asks for
MinRequired(c) ==
    CASE c.fn \in {"sma", "ema", "bollinger_bands"} -> c.period
      [] c.fn = "rsi" -> c.period + 1
      [] c.fn = "macd" -> c.slow_period + c.signal_period

\* C8: an indicator called with too little history raises
\* InsufficientDataError (that type) with a message naming the minimum
\* required length.
C8_InsufficientDataType ==
    (pc = "called" /\ SLen(ind_call.data) < MinRequired(ind_call)) =>
        /\ ind_ret.raised.type = "InsufficientDataError"
        /\ ToString(MinRequired(ind_call)) \in Range(ind_ret.raised.msg)

\* every cell of the series is a number
FullyDefined(data) == \A i \in DOMAIN data : ~IsNaN(data[i])

\* C21: for every fully defined input series of length >= period, sma and
\* ema return a series of the same length whose first period-1 entries, and
\* only those, are undefined; every entry from index period-1 on is defined.
C21_LeadingUndefined ==
    (/\ pc = "called"
     /\ ind_call.fn \in {"sma", "ema"}
     /\ FullyDefined(ind_call.data)
     /\ SLen(ind_call.data) >= ind_call.period) =>
        /\ ind_ret.raised = NoExc
        /\ DOMAIN ind_ret.value = DOMAIN ind_call.data
        /\ \A i \in DOMAIN ind_ret.value :
              IsNaN(ind_ret.value[i]) <=> i < ind_call.period - 1

\* a moving average of period 3 over 4 bars was returned
C21_Witness ==
    /\ pc = "called"
    /\ ind_call.fn \in {"sma", "ema"}
    /\ ind_call.period = 3
    /\ SLen(ind_call.data) = 4
    /\ ind_ret.raised = NoExc
    /\ IsNaN(ind_ret.value[1])
    /\ ~IsNaN(ind_ret.value[2])

\* no price up to bar i is below the one before it: there is no loss to
\* average (a comparison with a missing value counts as no loss)
NoLossUpTo(data, i) == \A j \in 1..i : ~RLt(data[j], data[j - 1])

\* C22: for every input series, every defined value of the rsi output lies
\* in [0, 100]; when the average loss is zero the value is 100 rather than
\* undefined.
C22_RsiRange ==
    (pc = "called" /\ ind_call.fn = "rsi" /\ ind_ret.raised = NoExc) =>
        \A i \in DOMAIN ind_ret.value :
           /\ ~IsNaN(ind_ret.value[i]) =>
                 RLe(Zero, ind_ret.value[i]) /\ RLe(ind_ret.value[i], Hundred)
           /\ (i >= ind_call.period - 1 /\ NoLossUpTo(ind_call.data, i)) =>
                 ind_ret.value[i] = Hundred

\* one call of rsi returned 100 at a bar of a flat stretch (average gain
\* and average loss both zero) and a value strictly between 0 and 100 later
C22_Witness ==
    /\ pc = "called"
    /\ ind_call.fn = "rsi"
    /\ ind_ret.raised = NoExc
    /\ \E i \in DOMAIN ind_ret.value :
          /\ i >= 1
          /\ i >= ind_call.period - 1
          /\ \A j \in 0..i : ind_call.data[j] = ind_call.data[0]
          /\ ind_ret.value[i] = Hundred
    /\ \E i \in DOMAIN ind_ret.value :
          RLt(Zero, ind_ret.value[i]) /\ RLt(ind_ret.value[i], Hundred)

\* a band mid + k * sqrt(sq) is a number
BandDefined(band) == ~IsNaN(band.mid) /\ ~IsNaN(band.k) /\ ~IsNaN(band.sq)

\* the band is not below its middle: k * sqrt(sq) >= 0
NotBelowMiddle(band) == RLe(Zero, band.k) \/ REq(band.sq, Zero)

\* the band is not above its middle: k * sqrt(sq) <= 0
NotAboveMiddle(band) == RLe(band.k, Zero) \/ REq(band.sq, Zero)

\* C23: for every input series, period and num_std accepted by
\* bollinger_bands, at every bar where the bands are defined
\* Upper >= Middle >= Lower.
C23_BandsOrdered ==
    (pc = "called" /\ ind_call.fn = "bollinger_bands" /\ ind_ret.raised = NoExc) =>
        \A i \in DOMAIN ind_ret.value[2] :
           (BandDefined(ind_ret.value[1][i]) /\ BandDefined(ind_ret.value[3][i])) =>
              /\ NotBelowMiddle(ind_ret.value[1][i])
              /\ NotAboveMiddle(ind_ret.value[3][i])

----------------------------------------------------------------------------
(* SpecCond: _evaluate_condition on every small frame and rule             *)

\* frames with a price column and an indicator column that may be undefined
CondFrames ==
    UNION {{[Close |-> c, SMA_2 |-> m] :
               c \in [0..(n - 1) -> Prices], m \in [0..(n - 1) -> Prices \cup {NaN}]} :
           n \in 1..MaxCondBars}

LeftOperands ==
    {Col("SMA_2"), Col("Close"), Col("XYZ"), ShiftE(Col("SMA_2"), 1), ShiftE(Col("Close"), 1),
     AbsE(Col("SMA_2")), Lit(1)}

RightOperands == {Col("Close"), Lit(1), Lit(2)}

Comparisons == {Cmp(o, l, r) : o \in CmpOps, l \in LeftOperands, r \in RightOperands}

\* operands of the combinators
Operands ==
    {Cmp(">", Col("SMA_2"), Col("Close")), Cmp("<=", Col("Close"), Lit(1)),
     Cmp("!=", Col("SMA_2"), Lit(1)), Cmp(">", Col("XYZ"), Lit(1)),
     Cmp("<", Lit(1), Lit(2)), Cmp(">", Lit(1), Lit(2))}

CondRules ==
    Comparisons
    \cup {Bin(o, l, r) : o \in {"&", "|", "and", "or"}, l \in Operands, r \in Operands}
    \cup {Un(o, e) : o \in {"~", "not"}, e \in Comparisons}

InitCond ==
    /\ pc = "evaluate"
    /\ bt = [initial_capital |-> 1000, commission_rate |-> Zero, slippage_rate |-> Zero]
    /\ df \in CondFrames
    /\ trades = <<>>
    /\ IndIdle
    /\ cond \in CondRules
    /\ cond_ret = Returned(<<>>)
    /\ RunIdle
    /\ prior = NoPrior
    /\ OptIdle
    /\ ImpIdle

EvaluateCondition ==
    /\ pc = "evaluate"
    /\ cond_ret' = evaluate_condition(cond, df)
    /\ pc' = "evaluated"
    /\ UNCHANGED <<bt, prior, optvars, impvars, df, trades, indvars, cond, runvars>>

NextCond == EvaluateCondition

SpecCond == InitCond /\ [][NextCond]_vars

\* bars at which a column the rule refers to is undefined
UndefinedBars == {i \in Bars(df) : \E c \in Names(cond) \cap DOMAIN df : IsNaN(df[c][i])}

\* C10: in the signal series the evaluator returns, every bar at which a
\* column referenced by the rule is undefined is false, and no cell is
\* undefined.
C10_UndefinedIsFalse ==
    (pc = "evaluated" /\ cond_ret.raised = NoExc) =>
        /\ cond_ret.value.isbool
        /\ \A i \in UndefinedBars : cond_ret.value.s[i] = FALSE

----------------------------------------------------------------------------
(* SpecRun: run_backtest on series around the 50-bar minimum               *)

RunLengths == {10, 49, 50, 60}

\* closes of 1 with a two-bar rise to 2 every twenty bars
RunData(n) == [Close |-> [i \in 0..(n - 1) |-> Int2Rat(IF i % 20 \in {3, 4} THEN 2 ELSE 1)]]

IndCfg(type, period, column) == [type |-> type, period |-> period, column |-> column]

IndicatorConfigs ==
    {<<>>,
     <<IndCfg("SMA", 2, "Close")>>,
     <<IndCfg("sma", 2, "Close"), IndCfg("SMA", 3, "Close")>>,
     <<IndCfg("SMA", 55, "Close")>>,
     <<IndCfg("FOO", 2, "Close")>>,
     <<IndCfg("SMA", 2, "Typo")>>}

RunRules ==
    {Cmp(">", Col("Close"), Col("SMA_2")),
     Cmp("<", Col("Close"), Col("SMA_2")),
     Cmp(">", Col("Close"), Lit(1)),
     Cmp(">", Col("Close"), Lit(5)),
     Cmp(">", Col("Close"), Col("XYZ")),
     Bin("&", Cmp(">", Col("SMA_2"), Col("SMA_3")),
              Cmp("<=", ShiftE(Col("SMA_2"), 1), ShiftE(Col("SMA_3"), 1))),
     Bin("and", Cmp(">", Col("Close"), Lit(1)), Cmp("<", Col("Close"), Lit(2))),
     Bin("or", Cmp("<", Lit(1), Lit(2)), Cmp(">", Col("XYZ"), Lit(1)))}

RuleDicts == {Rules(FALSE, NoneRule)} \cup {Rules(TRUE, r) : r \in RunRules \cup {NoneRule}}

InitRun ==
    /\ pc = "run_backtest"
    /\ \E n \in RunLengths :
          bt = [data |-> RunData(n), initial_capital |-> 1000,
                commission_rate |-> Zero, slippage_rate |-> Zero]
    /\ df = [Close |-> <<>>]
    /\ trades = <<>>
    /\ IndIdle
    /\ CondIdle
    /\ prior = NoPrior
    /\ OptIdle
    /\ ImpIdle
    /\ \E ind \in IndicatorConfigs, entry \in RuleDicts, exit \in RuleDicts, ci \in BOOLEAN :
          cfg = [strategy_config |-> [indicators |-> ind, entry_rules |-> entry, exit_rules |-> exit],
                 calculate_indicators |-> ci]
    /\ exc = NoExc
    /\ result = NoResult
    /\ calls = <<>>

NextRun ==
    \/ RunCheckLength
    \/ RunCalculateIndicators
    \/ RunReadConditions
    \/ RunGenerateSignals
    \/ RunCalculateReturns
    \/ RunExtractTrades
    \/ RunReturn
    \/ RunExcept
    \/ RunAgain

SpecRun == InitRun /\ [][NextRun]_vars

Finished == pc \in {"returned", "raised"}

\* C6: with fewer than 50 bars run_backtest fails with InsufficientData
\* (handed to the caller inside a BacktestError with the same message),
\* before any indicator is computed or any rule is evaluated, whatever the
\* strategy configuration holds, and no result bundle is produced.
C6_ShortSeriesFails ==
    NBars(bt.data) < 50 =>
        /\ calls = <<>>
        /\ result = NoResult
        /\ pc \in {"run_backtest", "except", "raised"}
        /\ pc = "raised" =>
              /\ exc.type = "BacktestError"
              /\ exc.context = "InsufficientDataError"
              /\ exc.msg = <<"Insufficient data for backtesting (minimum 50 periods)">>

\* C6 witness: 49 bars, with indicators configured and a rule that could not
\* be evaluated
C6_Witness ==
    /\ pc = "raised"
    /\ NBars(bt.data) = 49
    /\ Len(cfg.strategy_config.indicators) > 0
    /\ cfg.strategy_config.entry_rules.condition = Cmp(">", Col("Close"), Col("XYZ"))
    /\ exc.context = "InsufficientDataError"

\* the unknown columns of the rule whose evaluation comes first: the entry
\* rule's, or the exit rule's when the entry rule was evaluated without error
FirstUnknown ==
    LET entry == cfg.strategy_config.entry_rules.condition
        exit  == cfg.strategy_config.exit_rules.condition
    IN  IF "entry_condition" \notin Range(calls) THEN {}
        ELSE IF Names(entry) \ DOMAIN df # {} THEN Names(entry) \ DOMAIN df
        ELSE IF "exit_condition" \in Range(calls) THEN Names(exit) \ DOMAIN df
        ELSE {}

\* C7: a backtest whose entry or exit rule refers to a column that is neither
\* a price column nor produced by the configured indicators fails with
\* InvalidStrategy, and the failure handed to the caller names that column.
\* (Stated for runs that reach the evaluation of that rule.)
C7_UnknownColumnFails ==
    (Finished /\ FirstUnknown # {}) =>
        /\ pc = "raised"
        /\ exc.type = "BacktestError"
        /\ exc.context = "InvalidStrategyError"
        /\ FirstUnknown \subseteq Range(exc.msg)

\* C9: every failure of run_backtest leaves it as a BacktestError, whatever
\* was raised inside; a run that does not fail returns a result bundle.
C9_OnlyBacktestError ==
    /\ pc = "raised" => (exc.type = "BacktestError" /\ result = NoResult)
    /\ pc = "returned" => (exc = NoExc /\ result.success)
    /\ pc = "except" => exc # NoExc

\* C9 witness: an exception that is neither InvalidStrategyError nor
\* InsufficientDataError was raised inside and left as a BacktestError
C9_Witness ==
    /\ pc = "raised"
    /\ exc.type = "BacktestError"
    /\ exc.context \in {"KeyError", "IndicatorCalculationError"}

\* C11: a second run_backtest with the same strategy configuration and price
\* series, on the same backtester or on a fresh one, ends as the first did:
\* the same metrics bundle and the same trade ledger (the ledger of the
\* second run replaces the first, nothing is carried over), or the same
\* failure.
C11_SecondRunIdentical ==
    (prior.ran /\ Finished) =>
        /\ (pc = "returned") = prior.result.success
        /\ pc = "returned" =>
              /\ result.metrics = prior.result.metrics
              /\ result.trades = prior.result.trades
              /\ trades = prior.trades
              /\ result.num_trades = prior.result.num_trades
        /\ pc = "raised" => exc = prior.exc

\* C11 witness: the second run on the same instance returned, with trades in
\* the ledger
C11_Witness ==
    /\ prior.ran
    /\ ~prior.fresh
    /\ pc = "returned"
    /\ Len(trades) > 0

\* the bars up to idx at which the scan sees an entry
EntriesUpTo(idx) == {i \in 0..idx : REq(df.Position_Change[i], One)}

\* C27: the trade ledger returned by _extract_trades is chronological and
\* non-overlapping: within each trade the entry bar index is strictly less
\* than the exit bar index (duration >= 1), and each trade's entry bar comes
\* strictly after the previous trade's exit bar; at most one trade is
\* pending at any point of the scan.
C27_LedgerChronological ==
    (pc \in {"metrics", "returned"}) =>
        /\ \A k \in DOMAIN trades :
              /\ trades[k].entry_date < trades[k].exit_date
              /\ trades[k].duration >= 1
              /\ k > 1 => trades[k].entry_date > trades[k - 1].exit_date
        /\ \A idx \in Bars(df) :
              \E s \in {ScanTrades(bt, df, idx)} :
                 /\ Cardinality(EntriesUpTo(idx)) - Len(s.trades) \in {0, 1}
                 /\ s.in_position <=> Cardinality(EntriesUpTo(idx)) - Len(s.trades) = 1
                 /\ (s.in_position /\ s.trades # <<>>) =>
                       s.entry_idx > s.trades[Len(s.trades)].exit_date

\* a ledger of three trades
C27_Witness ==
    /\ pc = "returned"
    /\ Len(trades) >= 3
    /\ trades[2].entry_date > trades[1].exit_date

\* C12: a backtest that produced no trades returns (no exception) a metrics
\* bundle with num_trades = 0, win_rate = 0, profit_factor = 0, avg_win,
\* avg_loss and win_loss_ratio 0 and no winning or losing trades.
C12_NoTradesDefaults ==
    (pc = "returned" /\ Len(trades) = 0) =>
        LET m == result.metrics
        IN  /\ result.success
            /\ m.num_trades = 0
            /\ m.win_rate = Zero
            /\ m.profit_factor = Zero
            /\ m.avg_win = Zero
            /\ m.avg_loss = Zero
            /\ m.win_loss_ratio = Zero
            /\ m.num_winning_trades = 0
            /\ m.num_losing_trades = 0

\* C12 witness: a run with no trades returned its bundle
C12_Witness ==
    /\ pc = "returned"
    /\ Len(trades) = 0
    /\ result.success
    /\ result.metrics.num_trades = 0


----------------------------------------------------------------------------
(* Claims about the pipeline (checked under Spec)                          *)

HasSignal == pc \in {"returns", "trades", "done"}

HasReturns == pc \in {"trades", "done"}

PrevPosition(i) == IF i = 0 THEN 0 ELSE df.Signal[i - 1]

\* bars at which the position goes from 1 to 0
Closings == {i \in Bars(df) : i >= 1 /\ df.Signal[i - 1] = 1 /\ df.Signal[i] = 0}

\* C1: the position series starts from Flat before bar 0; at each bar it goes
\* 0 -> 1 exactly when flat with the entry signal true, 1 -> 0 exactly when
\* long with the exit signal true (with both signals true: enter if flat,
\* exit if long), otherwise it equals the previous bar's position; every
\* value is 0 or 1.
C1_PositionStateMachine ==
    HasSignal =>
        \A i \in Bars(df) :
            LET prev == PrevPosition(i)
                e == df.Entry_Signal[i] = 1
                x == df.Exit_Signal[i] = 1
            IN  /\ df.Signal[i] \in {0, 1}
                /\ (prev = 0 /\ e) => df.Signal[i] = 1
                /\ (prev = 0 /\ ~e) => df.Signal[i] = 0
                /\ (prev = 1 /\ x) => df.Signal[i] = 0
                /\ (prev = 1 /\ ~x) => df.Signal[i] = 1

\* C1 witness: both signals true at one bar while flat (it enters) and at a
\* later bar while long (it exits)
C1_Witness ==
    /\ HasSignal
    /\ \E i, j \in Bars(df) :
          /\ i < j
          /\ df.Entry_Signal[i] = 1 /\ df.Exit_Signal[i] = 1
          /\ PrevPosition(i) = 0 /\ df.Signal[i] = 1
          /\ df.Entry_Signal[j] = 1 /\ df.Exit_Signal[j] = 1
          /\ PrevPosition(j) = 1 /\ df.Signal[j] = 0

\* C2: every 1 -> 0 transition of the position adds exactly one trade to the
\* ledger, whatever bar the position was opened at (bar 0 included): the
\* number of trades equals the number of 1 -> 0 transitions.
C2_TradePerClosing ==
    pc = "done" => Len(trades) = Cardinality(Closings)

\* C3: every trade of the ledger has an exit bar at which the position went
\* from 1 to 0, no two trades share an exit bar, and a position still long
\* at the last bar contributes no trade.
C3_NoTradeAtSeriesEnd ==
    pc = "done" =>
        /\ \A k \in 1..Len(trades) : trades[k].exit_date \in Closings
        /\ \A k, l \in 1..Len(trades) : k < l => trades[k].exit_date < trades[l].exit_date
        /\ Len(trades) <= Cardinality(Closings)

\* C3 witness: a closed trade is in the ledger and a later position, entered
\* after bar 0, is still long at the last bar
C3_Witness ==
    /\ pc = "done"
    /\ Len(trades) >= 1
    /\ NBars(df) >= 2
    /\ df.Signal[NBars(df) - 1] = 1
    /\ \E i \in Bars(df) :
          /\ i > trades[Len(trades)].exit_date
          /\ df.Signal[i - 1] = 0
          /\ \A j \in i..(NBars(df) - 1) : df.Signal[j] = 1

\* C4: every trade has (return + 2*(commission_rate + slippage_rate)) *
\* entry_price = exit_price - entry_price, with entry_price and exit_price
\* the closes of the entry and exit bars, profit_loss / initial_capital =
\* return, duration = exit bar - entry bar, and type LONG.
C4_TradeReturn ==
    pc = "done" =>
        \A k \in 1..Len(trades) :
            LET t == trades[k]
                cost2 == RAdd(RAdd(bt.commission_rate, bt.slippage_rate),
                              RAdd(bt.commission_rate, bt.slippage_rate))
            IN  /\ t.entry_date \in Bars(df) /\ t.exit_date \in Bars(df)
                /\ t.entry_price = df.Close[t.entry_date]
                /\ t.exit_price = df.Close[t.exit_date]
                /\ RMul(RAdd(t.return, cost2), t.entry_price)
                      = RSub(t.exit_price, t.entry_price)
                /\ RDiv(t.profit_loss, Int2Rat(bt.initial_capital)) = t.return
                /\ t.duration = t.exit_date - t.entry_date
                /\ t.type = "LONG"

\* C4 witness: a trade with different entry and exit prices under non-zero costs
C4_Witness ==
    /\ pc = "done"
    /\ bt.commission_rate # Zero
    /\ \E k \in 1..Len(trades) : trades[k].entry_price # trades[k].exit_price

\* a signal series with bar k flipped
Flip(s, k) == [i \in DOMAIN s |-> IF i = k THEN 1 - s[i] ELSE s[i]]

\* the Strategy_Returns column the pipeline gives for other signals on the same closes
ReturnsFor(entry, exit) == Strategy_Returns([Close |-> df.Close, Signal |-> signals(entry, exit)])

\* C5: no lookahead.  Strategy_Returns[t] = Market_Returns[t] * Position[t-1]
\* (undefined at bar 0), and changing the entry or the exit signal at a bar
\* k changes neither the position before bar k nor Strategy_Returns at any
\* bar t <= k.  (Two series that agree on bars 0..t-1 differ by a chain of
\* such single changes at bars >= t.)
C5_NoLookahead ==
    HasReturns =>
        /\ \A t \in Bars(df) :
              df.Strategy_Returns[t] =
                  IF t = 0 THEN NaN
                  ELSE RMul(RSub(RDiv(df.Close[t], df.Close[t - 1]), One),
                            Int2Rat(df.Signal[t - 1]))
        /\ \A k \in Bars(df) :
              \A alt \in {<<Flip(df.Entry_Signal, k), df.Exit_Signal>>,
                          <<df.Entry_Signal, Flip(df.Exit_Signal, k)>>,
                          <<Flip(df.Entry_Signal, k), Flip(df.Exit_Signal, k)>>} :
                  /\ \A t \in Bars(df) : t < k => signals(alt[1], alt[2])[t] = df.Signal[t]
                  /\ \A t \in Bars(df) : t <= k => ReturnsFor(alt[1], alt[2])[t] = df.Strategy_Returns[t]

\* C5 witness: the position changes at a bar whose market return is not zero,
\* so that a return computed from the bar's own position would differ
C5_Witness ==
    /\ HasReturns
    /\ \E t \in Bars(df) :
          /\ t >= 1
          /\ df.Signal[t] # df.Signal[t - 1]
          /\ df.Market_Returns[t] # Zero
          /\ signals(Flip(df.Entry_Signal, t), Flip(df.Exit_Signal, t))[t] # df.Signal[t]

\* C24: Trading_Cost[t] equals commission_rate + slippage_rate at exactly
\* the bars where the position differs from the previous bar's position, and
\* is 0 at every other bar; at bar 0, where the position change is
\* undefined, the change is treated as 0 and no cost is charged. One
\* position-change event is charged once.
C24_CostAtPositionChange ==
    HasReturns =>
        \A t \in Bars(df) :
           IF t >= 1 /\ df.Signal[t] # df.Signal[t - 1]
           THEN REq(df.Trading_Costs[t], RAdd(bt.commission_rate, bt.slippage_rate))
           ELSE REq(df.Trading_Costs[t], Zero)

----------------------------------------------------------------------------
(* StrategyOptimizer._generate_parameter_combinations                      *)
(* optimizable_params is a dict in insertion order: a sequence of          *)
(* [name, min, max, step]; integer ranges only (the np.arange branch for   *)
(* float ranges is not modelled). A combination is the sequence of         *)
(* [name, value] in the order of the parameter names.                      *)

Param(name, min, max, step) == [name |-> name, min |-> min, max |-> max, step |-> step]

\* list(range(start, stop, step)), step > 0
PyRange(start, stop, step) ==
    LET n == IF stop <= start THEN 0 ELSE (stop - start + step - 1) \div step
    IN  [k \in 1..n |-> start + (k - 1) * step]

param_ranges(optimizable_params) ==
    [k \in DOMAIN optimizable_params |->
        PyRange(optimizable_params[k].min,
                optimizable_params[k].max + optimizable_params[k].step,
                optimizable_params[k].step)]

\* itertools.product(*param_values) over the first k lists: the last list
\* varies fastest
RECURSIVE Product(_, _)
Product(param_values, k) ==
    IF k = 0 THEN << <<>> >>
    ELSE LET shorter == Product(param_values, k - 1)
             last    == param_values[k]
             n       == Len(last)
         IN  [j \in 1..(Len(shorter) * n) |->
                 Append(shorter[((j - 1) \div n) + 1], last[((j - 1) % n) + 1])]

all_combinations(optimizable_params) ==
    Product(param_ranges(optimizable_params), Len(optimizable_params))

\* mutant: replace = True, an index may be drawn again
Choices_WithReplacement(n, size) == [1..size -> 1..n]

\* np.random.choice(n, size, replace = False): size distinct indices, any order
Choices(n, size) ==
    {c \in [1..size -> 1..n] : \A a, b \in 1..size : a # b => c[a] # c[b]}

\* dict(zip(param_names, combo))
AsDict(optimizable_params, combo) ==
    [k \in DOMAIN combo |-> [name |-> optimizable_params[k].name, value |-> combo[k]]]

\* the lists the call may return: the whole product in order, or a random
\* sample of max_combinations of its members
generate_parameter_combinations(optimizable_params, max_combinations) ==
    LET all == all_combinations(optimizable_params)
    IN  IF Len(all) > max_combinations
        THEN {[k \in 1..max_combinations |-> AsDict(optimizable_params, all[indices[k]])] :
                 indices \in Choices(Len(all), max_combinations)}
        ELSE {[k \in 1..Len(all) |-> AsDict(optimizable_params, all[k])]}

----------------------------------------------------------------------------
(* StrategyOptimizer._apply_parameters                                     *)
(* A strategy configuration is [name, config, optimizable_params] with     *)
(* config = [indicators, entry_rules, exit_rules]; an indicator is a dict  *)
(* (a record: its keys are its fields).                                    *)

\* `sub in param_name` (and `sub in param_name.lower()`) for the parameter
\* names of the model
Substrings ==
    {<<"threshold", "oversold_threshold">>, <<"oversold", "oversold_threshold">>,
     <<"threshold", "overbought_threshold">>, <<"overbought", "overbought_threshold">>}

Contains(sub, param_name) == param_name = sub \/ <<sub, param_name>> \in Substrings

\* dict.get(key, default)
Get(dict, key, default) == IF key \in DOMAIN dict THEN dict[key] ELSE default

\* dict[key] = value
Set(dict, key, value) == (key :> value) @@ dict

\* the if/elif chain for one indicator and one parameter
ApplyParam(indicator, param_name, param_value) ==
    LET indicator_type == indicator.type
    IN  IF Contains("SMA_fast_period", param_name) /\ indicator_type = "SMA"
        THEN (IF Get(indicator, "period", 0) < 30
              THEN Set(indicator, "period", param_value) ELSE indicator)
        ELSE IF Contains("SMA_slow_period", param_name) /\ indicator_type = "SMA"
        THEN (IF Get(indicator, "period", 0) >= 30
              THEN Set(indicator, "period", param_value) ELSE indicator)
        ELSE IF Contains("RSI_period", param_name) /\ indicator_type = "RSI"
        THEN Set(indicator, "period", param_value)
        ELSE IF Contains("MACD_fast", param_name) /\ indicator_type = "MACD"
        THEN Set(indicator, "fast_period", param_value)
        ELSE IF Contains("MACD_slow", param_name) /\ indicator_type = "MACD"
        THEN Set(indicator, "slow_period", param_value)
        ELSE IF Contains("MACD_signal", param_name) /\ indicator_type = "MACD"
        THEN Set(indicator, "signal_period", param_value)
        ELSE IF Contains("BB_period", param_name) /\ indicator_type \in {"BOLLINGER", "BB"}
        THEN Set(indicator, "period", param_value)
        ELSE IF Contains("BB_std_dev", param_name) /\ indicator_type \in {"BOLLINGER", "BB"}
        THEN Set(indicator, "num_std", param_value)
        ELSE IF Contains("EMA_short", param_name) /\ indicator_type = "EMA"
        THEN (IF Get(indicator, "period", 0) < 20
              THEN Set(indicator, "period", param_value) ELSE indicator)
        ELSE IF Contains("EMA_medium", param_name) /\ indicator_type = "EMA"
        THEN (IF 15 <= Get(indicator, "period", 0) /\ Get(indicator, "period", 0) < 35
              THEN Set(indicator, "period", param_value) ELSE indicator)
        ELSE IF Contains("EMA_long", param_name) /\ indicator_type = "EMA"
        THEN (IF Get(indicator, "period", 0) >= 35
              THEN Set(indicator, "period", param_value) ELSE indicator)
        ELSE indicator

\* the inner loop: the first k parameters applied to the indicator in turn
RECURSIVE ApplyParams(_, _, _)
ApplyParams(indicator, parameters, k) ==
    IF k = 0 THEN indicator
    ELSE ApplyParam(ApplyParams(indicator, parameters, k - 1),
                    parameters[k].name, parameters[k].value)

ColumnPrefixes == {"SMA_", "EMA_", "RSI_"}

\* str.replace(old, new) on a column name PREFIX_number
ReplaceInName(name, old, new) ==
    IF \E prefix \in ColumnPrefixes : name = prefix \o ToString(old)
    THEN (CHOOSE prefix \in ColumnPrefixes : name = prefix \o ToString(old)) \o ToString(new)
    ELSE name

\* condition.replace(str(old), str(new)): every occurrence of the digits in
\* the text, in literals, shift periods and column names alike (numbers of
\* the model are below 100, so an occurrence is a whole number)
RECURSIVE Replace(_, _, _)
Replace(e, old, new) ==
    CASE e.op = "col" -> Col(ReplaceInName(e.name, old, new))
      [] e.op = "lit" -> Lit(IF e.value = old THEN new ELSE e.value)
      [] e.op = "shift" -> ShiftE(Replace(e.arg, old, new),
                                  IF e.periods = old THEN new ELSE e.periods)
      [] e.op = "abs" -> AbsE(Replace(e.arg, old, new))
      [] e.op = "cmp" -> Cmp(e.cmp, Replace(e.left, old, new), Replace(e.right, old, new))
      [] e.op \in {"&", "|", "and", "or"} ->
            Bin(e.op, Replace(e.left, old, new), Replace(e.right, old, new))
      [] e.op \in {"~", "not"} -> Un(e.op, Replace(e.arg, old, new))

\* one pass of the threshold loop on config, or the exception it raises:
\* a missing 'entry_rules' or 'exit_rules' key, or None.replace
ApplyThreshold(config, param_name, param_value) ==
    IF ~Contains("threshold", param_name) THEN Returned(config)
    ELSE IF ~config.entry_rules.present THEN Failed(Raise("KeyError", <<"'entry_rules'">>))
    ELSE IF ~config.exit_rules.present THEN Failed(Raise("KeyError", <<"'exit_rules'">>))
    ELSE IF Contains("oversold", param_name)
    THEN (IF config.entry_rules.condition = NoneRule
          THEN Failed(Raise("AttributeError", <<"'NoneType' object has no attribute 'replace'">>))
          ELSE Returned([config EXCEPT !.entry_rules.condition = Replace(@, 30, param_value)]))
    ELSE IF Contains("overbought", param_name)
    THEN (IF config.exit_rules.condition = NoneRule
          THEN Failed(Raise("AttributeError", <<"'NoneType' object has no attribute 'replace'">>))
          ELSE Returned([config EXCEPT !.exit_rules.condition = Replace(@, 70, param_value)]))
    ELSE Returned(config)

\* the threshold loop over the first k parameters
RECURSIVE ApplyThresholds(_, _, _)
ApplyThresholds(config, parameters, k) ==
    IF k = 0 THEN Returned(config)
    ELSE LET before == ApplyThresholds(config, parameters, k - 1)
         IN  IF before.raised # NoExc THEN before
             ELSE ApplyThreshold(before.value, parameters[k].name, parameters[k].value)

\* the argument object after the call together with what the call returned
Applied(r, strategy_config) ==
    [raised |-> r.raised, value |-> r.value, strategy_config |-> strategy_config]

\* mutant: no deep copy, the base configuration itself is modified
apply_parameters_InPlace(strategy_config, parameters) ==
    IF \E k \in DOMAIN strategy_config.config.indicators :
          "type" \notin DOMAIN strategy_config.config.indicators[k]
    THEN Applied(Failed(Raise("KeyError", <<"'type'">>)), strategy_config)
    ELSE LET indicators == [k \in DOMAIN strategy_config.config.indicators |->
                               ApplyParams(strategy_config.config.indicators[k],
                                           parameters, Len(parameters))]
             r == ApplyThresholds([strategy_config.config EXCEPT !.indicators = indicators],
                                  parameters, Len(parameters))
         IN  IF r.raised # NoExc THEN Applied(r, strategy_config)
             ELSE Applied(Returned([strategy_config EXCEPT !.config = r.value]),
                          [strategy_config EXCEPT !.config = r.value])

\* the modified deep copy, or the exception raised (indicator['type'] of an
\* indicator without that key, or the threshold loop's); the argument is left
\* as it was
apply_parameters(strategy_config, parameters) ==
    IF \E k \in DOMAIN strategy_config.config.indicators :
          "type" \notin DOMAIN strategy_config.config.indicators[k]
    THEN Applied(Failed(Raise("KeyError", <<"'type'">>)), strategy_config)
    ELSE LET indicators == [k \in DOMAIN strategy_config.config.indicators |->
                               ApplyParams(strategy_config.config.indicators[k],
                                           parameters, Len(parameters))]
             r == ApplyThresholds([strategy_config.config EXCEPT !.indicators = indicators],
                                  parameters, Len(parameters))
         IN  IF r.raised # NoExc THEN Applied(r, strategy_config)
             ELSE Applied(Returned([strategy_config EXCEPT !.config = r.value]),
                          strategy_config)

----------------------------------------------------------------------------
(* StrategyOptimizer.optimize_strategy                                     *)
(* The backtest of one configuration on the market data is an input of the *)
(* optimizer: its outcome is chosen when the configuration is first        *)
(* backtested and is the same whenever that configuration is backtested    *)
(* again (memo). Of the metrics bundle two entries are kept.               *)

\* largest max_iterations and top_n handed to optimize_strategy
MaxIterations == 4

MaxTopN == 2

MetricValues == {0, 1}

BacktestFailed == [success |-> FALSE, error |-> <<"Backtest failed">>]

\* VectorizedBacktester(...).run_backtest(config): BacktestError raised, or
\* the result bundle
BacktestOutcomes ==
    {BacktestFailed} \cup
    {[success |-> TRUE,
      metrics |-> [sharpe_ratio |-> s, total_return |-> r],
      num_trades |-> 2] : s \in MetricValues, r \in MetricValues}

Backtest(config) ==
    IF config \in DOMAIN memo THEN {memo[config]} ELSE BacktestOutcomes

Remember(config, outcome) == (config :> outcome) @@ memo

\* the caller's frame after a backtester was built on it and run:
\* self.data = data.copy(), and _calculate_indicators adds its columns to
\* self.data.copy()
CallerData(market_data, config) == market_data

\* the frame of one call of optimize_strategy: its arguments (given and
\* given_data keep them as they were handed in) and its locals
Frame(strategy_config, market_data, optimization_metric, max_iterations, top_n, caller) ==
    [fn |-> "optimize_strategy",
     strategy_config |-> strategy_config,
     given |-> strategy_config,
     market_data |-> market_data,
     given_data |-> market_data,
     optimization_metric |-> optimization_metric,
     max_iterations |-> max_iterations,
     top_n |-> top_n,
     param_combinations |-> <<>>,
     i |-> 0,
     results |-> <<>>,
     caller |-> caller]

\* history: one backtest attempted for these parameters
Attempt(parameters, applied, outcome) ==
    [parameters |-> parameters, applied |-> applied, outcome |-> outcome]

\* the except clause of optimize_strategy
OptimizationError(e) == [success |-> FALSE, error |-> e.msg]

\* x['metrics'].get(optimization_metric, -float('inf'))
MinusInfinity == [inf |-> TRUE, value |-> 0]

Key(x, optimization_metric) ==
    IF optimization_metric \in DOMAIN x.metrics
    THEN [inf |-> FALSE, value |-> x.metrics[optimization_metric]]
    ELSE MinusInfinity

KeyLt(a, b) == ~b.inf /\ (a.inf \/ a.value < b.value)

KeyLe(a, b) == a.inf \/ (~b.inf /\ a.value <= b.value)

\* mutant: a sort that is not stable, equal keys come out in reverse order
Insert_Unstable(s, x, optimization_metric) ==
    LET after == {j \in 1..Len(s) :
                     KeyLe(Key(s[j], optimization_metric), Key(x, optimization_metric))}
        p == IF after = {} THEN Len(s) + 1 ELSE CHOOSE j \in after : \A k \in after : j <= k
    IN  SubSeq(s, 1, p - 1) \o <<x>> \o SubSeq(s, p, Len(s))

\* x, later in the list than every element of the descending s, takes its
\* place behind the elements whose key is not lower than its own
Insert(s, x, optimization_metric) ==
    LET after == {j \in 1..Len(s) :
                     KeyLt(Key(s[j], optimization_metric), Key(x, optimization_metric))}
        p == IF after = {} THEN Len(s) + 1 ELSE CHOOSE j \in after : \A k \in after : j <= k
    IN  SubSeq(s, 1, p - 1) \o <<x>> \o SubSeq(s, p, Len(s))

\* results.sort(key=..., reverse=True) of the first k results
RECURSIVE SortByMetric(_, _, _)
SortByMetric(results, optimization_metric, k) ==
    IF k = 0 THEN <<>>
    ELSE Insert(SortByMetric(results, optimization_metric, k - 1), results[k],
                optimization_metric)

\* r['metrics'].get(optimization_metric, 0)
MetricValue(r, optimization_metric) ==
    IF optimization_metric \in DOMAIN r.metrics THEN r.metrics[optimization_metric] ELSE 0

RECURSIVE SumValues(_, _, _)
SumValues(results, optimization_metric, k) ==
    IF k = 0 THEN 0
    ELSE SumValues(results, optimization_metric, k - 1)
         + MetricValue(results[k], optimization_metric)

\* mean, min, max and improvement (median and std are left out)
calculate_optimization_stats(results, optimization_metric) ==
    IF results = <<>> THEN <<>>
    ELSE LET metric_values == {MetricValue(results[k], optimization_metric) :
                                  k \in DOMAIN results}
             mean == RDiv(Int2Rat(SumValues(results, optimization_metric, Len(results))),
                          Int2Rat(Len(results)))
             max == CHOOSE v \in metric_values : \A w \in metric_values : w <= v
             min == CHOOSE v \in metric_values : \A w \in metric_values : v <= w
         IN  [mean |-> mean, min |-> Int2Rat(min), max |-> Int2Rat(max),
              improvement |-> RSub(Int2Rat(max), mean)]

\* what optimize_strategy returns after the loop: the log line reads
\* top_results[0]['metrics'][optimization_metric]
OptimizationResult(strategy_config, optimization_metric, results, top_results) ==
    IF top_results = <<>>
    THEN OptimizationError(Raise("IndexError", <<"list index out of range">>))
    ELSE IF optimization_metric \notin DOMAIN top_results[1].metrics
    THEN OptimizationError(Raise("KeyError", <<"'", optimization_metric, "'">>))
    ELSE [success |-> TRUE,
          base_strategy |-> strategy_config.name,
          optimization_metric |-> optimization_metric,
          total_tested |-> Len(results),
          top_strategies |-> top_results,
          statistics |-> calculate_optimization_stats(results, optimization_metric)]

\* results[:top_n] for top_n >= 0
FirstN(results, top_n) ==
    SubSeq(results, 1, IF top_n < Len(results) THEN top_n ELSE Len(results))

\* optimizable_params is read; without parameters the call is handed to
\* _optimize_without_params, otherwise the combinations are generated
OptStart ==
    /\ pc = "optimize_strategy"
    /\ IF opt.strategy_config.optimizable_params = <<>>
       THEN /\ pc' = "without_params"
            /\ opt' = opt
       ELSE /\ pc' = "loop"
            /\ \E combos \in generate_parameter_combinations(
                                opt.strategy_config.optimizable_params, opt.max_iterations) :
                  opt' = [opt EXCEPT !.param_combinations = combos]
    /\ UNCHANGED <<pipevars_rest, prior, out, memo, log, impvars>>

\* mutant: the first failing combination ends the loop
OptTry_Abort ==
    /\ pc = "loop"
    /\ opt.i < Len(opt.param_combinations)
    /\ \E params \in {opt.param_combinations[opt.i + 1]} :
       \E a \in {apply_parameters(opt.strategy_config, params)} :
          IF a.raised # NoExc
          THEN /\ opt' = [opt EXCEPT !.i = Len(opt.param_combinations),
                                     !.strategy_config = a.strategy_config]
               /\ log' = Append(log, Attempt(params, a, BacktestFailed))
               /\ memo' = memo
          ELSE \E o \in Backtest(a.value.config) :
               /\ memo' = Remember(a.value.config, o)
               /\ log' = Append(log, Attempt(params, a, o))
               /\ opt' = [opt EXCEPT
                             !.i = IF o.success THEN @ + 1 ELSE Len(opt.param_combinations),
                             !.strategy_config = a.strategy_config,
                             !.market_data = CallerData(@, a.value.config),
                             !.results = IF o.success
                                         THEN Append(@, [parameters |-> params,
                                                         metrics |-> o.metrics,
                                                         num_trades |-> o.num_trades,
                                                         config |-> a.value.config])
                                         ELSE @]
    /\ UNCHANGED <<pc, pipevars_rest, prior, out, impvars>>

\* one pass of the loop: the parameters are applied, the configuration is
\* backtested and a successful bundle is appended; any exception is caught
\* and the loop continues
OptTry ==
    /\ pc = "loop"
    /\ opt.i < Len(opt.param_combinations)
    /\ \E params \in {opt.param_combinations[opt.i + 1]} :
       \E a \in {apply_parameters(opt.strategy_config, params)} :
          IF a.raised # NoExc
          THEN /\ opt' = [opt EXCEPT !.i = @ + 1,
                                     !.strategy_config = a.strategy_config]
               /\ log' = Append(log, Attempt(params, a, BacktestFailed))
               /\ memo' = memo
          ELSE \E o \in Backtest(a.value.config) :
               /\ memo' = Remember(a.value.config, o)
               /\ log' = Append(log, Attempt(params, a, o))
               /\ opt' = [opt EXCEPT
                             !.i = @ + 1,
                             !.strategy_config = a.strategy_config,
                             !.market_data = CallerData(@, a.value.config),
                             !.results = IF o.success
                                         THEN Append(@, [parameters |-> params,
                                                         metrics |-> o.metrics,
                                                         num_trades |-> o.num_trades,
                                                         config |-> a.value.config])
                                         ELSE @]
    /\ UNCHANGED <<pc, pipevars_rest, prior, out, impvars>>

\* after the loop: sort, top_n, statistics, the log line, the result
OptFinish ==
    /\ pc = "loop"
    /\ opt.i = Len(opt.param_combinations)
    /\ \E sorted \in {SortByMetric(opt.results, opt.optimization_metric, Len(opt.results))} :
          /\ opt' = [opt EXCEPT !.results = sorted]
          /\ out' = OptimizationResult(opt.strategy_config, opt.optimization_metric,
                                       sorted, FirstN(sorted, opt.top_n))
    /\ pc' = "done"
    /\ UNCHANGED <<pipevars_rest, prior, memo, log, impvars>>

\* mutant: a failing backtest is reported as an empty optimization
OptWithoutParams_Swallow ==
    /\ pc = "without_params"
    /\ \E o \in Backtest(opt.strategy_config.config) :
          /\ memo' = Remember(opt.strategy_config.config, o)
          /\ log' = Append(log, Attempt(<<>>, Applied(Returned(opt.strategy_config),
                                                      opt.strategy_config), o))
          /\ out' = IF o.success
                    THEN [success |-> TRUE,
                          base_strategy |-> opt.strategy_config.name,
                          optimization_metric |-> "sharpe_ratio",
                          total_tested |-> 1,
                          top_strategies |-> <<[parameters |-> <<>>,
                                                metrics |-> o.metrics,
                                                num_trades |-> o.num_trades,
                                                config |-> opt.strategy_config.config]>>,
                          statistics |-> <<>>]
                    ELSE [success |-> TRUE,
                          base_strategy |-> opt.strategy_config.name,
                          optimization_metric |-> "sharpe_ratio",
                          total_tested |-> 0,
                          top_strategies |-> <<>>,
                          statistics |-> <<>>]
          /\ opt' = [opt EXCEPT !.market_data = CallerData(@, opt.strategy_config.config)]
    /\ pc' = "done"
    /\ UNCHANGED <<pipevars_rest, prior, impvars>>

\* _optimize_without_params: one backtest of strategy_config['config']; a
\* BacktestError leaves through the except clause of optimize_strategy
OptWithoutParams ==
    /\ pc = "without_params"
    /\ \E o \in Backtest(opt.strategy_config.config) :
          /\ memo' = Remember(opt.strategy_config.config, o)
          /\ log' = Append(log, Attempt(<<>>, Applied(Returned(opt.strategy_config),
                                                      opt.strategy_config), o))
          /\ out' = IF o.success
                    THEN [success |-> TRUE,
                          base_strategy |-> opt.strategy_config.name,
                          optimization_metric |-> "sharpe_ratio",
                          total_tested |-> 1,
                          top_strategies |-> <<[parameters |-> <<>>,
                                                metrics |-> o.metrics,
                                                num_trades |-> o.num_trades,
                                                config |-> opt.strategy_config.config]>>,
                          statistics |-> <<>>]
                    ELSE OptimizationError(Raise("BacktestError", o.error))
          /\ opt' = [opt EXCEPT !.market_data = CallerData(@, opt.strategy_config.config)]
    /\ pc' = "done"
    /\ UNCHANGED <<pipevars_rest, prior, impvars>>

----------------------------------------------------------------------------
(* SpecOpt: optimize_strategy called on small strategies                   *)

StrategyConfig(name, indicators, entry, exit, optimizable_params) ==
    [name |-> name,
     config |-> [indicators |-> indicators,
                 entry_rules |-> Rules(TRUE, entry),
                 exit_rules |-> Rules(TRUE, exit)],
     optimizable_params |-> optimizable_params]

\* two moving averages, four combinations
SmaCrossover ==
    StrategyConfig("SMA Crossover",
                   <<IndCfg("SMA", 20, "Close"), IndCfg("SMA", 50, "Close")>>,
                   Cmp(">", Col("SMA_20"), Col("SMA_50")),
                   Cmp("<", Col("SMA_20"), Col("SMA_50")),
                   <<Param("SMA_fast_period", 20, 30, 10), Param("SMA_slow_period", 30, 40, 10)>>)

\* RSI with its two thresholds, four combinations
RsiReversion ==
    StrategyConfig("RSI Mean Reversion",
                   <<IndCfg("RSI", 14, "Close")>>,
                   Cmp("<", Col("RSI_14"), Lit(30)),
                   Cmp(">", Col("RSI_14"), Lit(70)),
                   <<Param("oversold_threshold", 20, 30, 10),
                     Param("overbought_threshold", 70, 80, 10)>>)

\* nothing to optimize
BuyAndHold ==
    StrategyConfig("Buy and Hold", <<>>, Cmp(">", Col("Close"), Lit(0)),
                   Cmp("<", Col("Close"), Lit(0)), <<>>)

\* no exit condition: every combination fails in _apply_parameters
NoExitRule ==
    StrategyConfig("No Exit", <<IndCfg("RSI", 14, "Close")>>,
                   Cmp("<", Col("RSI_14"), Lit(30)), NoneRule,
                   <<Param("overbought_threshold", 70, 80, 10)>>)

\* an indicator without its type
NoType ==
    StrategyConfig("No Type", <<[period |-> 14]>>,
                   Cmp(">", Col("Close"), Lit(0)), Cmp("<", Col("Close"), Lit(0)),
                   <<Param("RSI_period", 10, 14, 4)>>)

OptStrategies == {SmaCrossover, RsiReversion, BuyAndHold, NoExitRule, NoType}

\* 'profit' is no key of the metrics bundle
MetricNames == {"sharpe_ratio", "total_return", "profit"}

MarketData == RunData(MinBars)

InitOpt ==
    /\ pc = "optimize_strategy"
    /\ PipeIdle
    /\ IndIdle
    /\ CondIdle
    /\ RunIdle
    /\ prior = NoPrior
    /\ ImpIdle
    /\ \E strategy_config \in OptStrategies, optimization_metric \in MetricNames,
          max_iterations \in 0..MaxIterations, top_n \in 0..MaxTopN :
             opt = Frame(strategy_config, MarketData, optimization_metric,
                         max_iterations, top_n, "caller")
    /\ out = NoResult
    /\ memo = <<>>
    /\ log = <<>>

NextOpt ==
    \/ OptStart
    \/ OptTry
    \/ OptFinish
    \/ OptWithoutParams

SpecOpt == InitOpt /\ [][NextOpt]_vars

OptDone == pc = "done" /\ opt.caller = "caller"

\* C13: the reported total_tested is at most min(size of the full Cartesian
\* combination set, max_iterations) and len(top_strategies) is at most
\* top_n, for every max_iterations >= 0 and top_n >= 0, also when no
\* optimizable parameter is declared.
C13_TestedAndTopBounded ==
    (OptDone /\ out.success) =>
        /\ out.total_tested <= Len(all_combinations(opt.given.optimizable_params))
        /\ out.total_tested <= opt.max_iterations
        /\ Len(out.top_strategies) <= opt.top_n

\* the attempts whose backtest succeeded, in the order they were made
Successes == SelectSeq(log, LAMBDA x : x.outcome.success)

\* C14: a failure while applying or backtesting one parameter combination
\* does not abort the run: every sampled combination is attempted exactly
\* once, in sample order, whatever happened to earlier ones, and the
\* recorded results are exactly the combinations whose backtest succeeded.
C14_FailuresSkipped ==
    (pc \in {"loop", "done"} /\ opt.given.optimizable_params # <<>>) =>
        /\ Len(log) = opt.i
        /\ \A k \in DOMAIN log : log[k].parameters = opt.param_combinations[k]
        /\ pc = "done" => Len(log) = Len(opt.param_combinations)
        /\ Len(opt.results) = Len(Successes)
        /\ \A k \in DOMAIN Successes :
              \E j \in DOMAIN opt.results :
                 /\ opt.results[j].parameters = Successes[k].parameters
                 /\ opt.results[j].metrics = Successes[k].outcome.metrics
                 /\ opt.results[j].config = Successes[k].applied.value.config

\* a finished run whose first combination failed in its backtest, whose
\* second failed and whose third succeeded
C14_Witness ==
    /\ OptDone
    /\ Len(log) >= 3
    /\ log[1].applied.raised = NoExc /\ ~log[1].outcome.success
    /\ ~log[2].outcome.success
    /\ log[3].outcome.success
    /\ Len(opt.results) >= 1

\* C15: optimize_strategy reports failure (success = false) only when no
\* sampled combination produced a successful backtest: whenever at least
\* one combination succeeds it returns success = true, for every
\* optimization_metric name and every top_n >= 1.
C15_FailureOnlyWithoutSuccess ==
    (OptDone /\ opt.top_n >= 1 /\ Successes # <<>>) => out.success

\* the place of a result among the successful attempts: when it was evaluated
Evaluated(x) == CHOOSE k \in DOMAIN Successes : Successes[k].parameters = x.parameters

\* x comes before y in the order of the ranking: higher metric first, and
\* for equal metrics the one evaluated first
Ahead(x, y, optimization_metric) ==
    \/ KeyLt(Key(y, optimization_metric), Key(x, optimization_metric))
    \/ /\ ~KeyLt(Key(x, optimization_metric), Key(y, optimization_metric))
       /\ Evaluated(x) < Evaluated(y)

C19_SingleBacktest ==
    (OptDone /\ opt.given.optimizable_params = <<>>) =>
        /\ Len(log) = 1
        /\ log[1].applied.value.config = opt.given.config
        /\ DOMAIN memo = {opt.given.config}
        /\ IF log[1].outcome.success
           THEN /\ out.success
                /\ out.total_tested = 1
                /\ Len(out.top_strategies) = 1
                /\ out.top_strategies[1].parameters = <<>>
                /\ out.top_strategies[1].config = opt.given.config
                /\ out.top_strategies[1].metrics = log[1].outcome.metrics
           ELSE ~out.success

\* the degenerate optimization has returned its single strategy
C19_Witness ==
    /\ OptDone
    /\ opt.given.optimizable_params = <<>>
    /\ Len(log) = 1
    /\ out.success
    /\ out.total_tested = 1
    /\ opt.max_iterations > 1

\* C20: optimize_strategy is read-only with respect to its inputs: after any
\* run, with any mix of succeeding and failing combinations, the base
\* strategy configuration (indicators, rules, parameter ranges) and the
\* price series passed in are unchanged, and the configuration applied for
\* one combination never affects the configuration built for another (each
\* is what its parameters alone make of the base configuration handed in).
C20_InputsUnchanged ==
    opt # NoFrame =>
        /\ opt.strategy_config = opt.given
        /\ opt.market_data = opt.given_data
        /\ \A k \in DOMAIN log :
              /\ log[k].applied.strategy_config = opt.given
              /\ log[k].applied.raised = NoExc =>
                    log[k].applied.value = apply_parameters(opt.given, log[k].parameters).value

\* a finished run in which one combination failed, another succeeded and
\* two combinations were given different configurations, both unlike the base
C20_Witness ==
    /\ OptDone
    /\ \E j, k \in DOMAIN log :
          /\ j < k
          /\ log[j].applied.raised = NoExc
          /\ log[k].applied.raised = NoExc
          /\ log[j].applied.value.config # log[k].applied.value.config
          /\ log[j].applied.value.config # opt.given.config
          /\ log[k].applied.value.config # opt.given.config
          /\ log[j].outcome.success # log[k].outcome.success

\* the columns _calculate_indicators adds for one indicator of the list
IndicatorColumns(config) ==
    LET indicator_type == Upper(config.type)
    IN  CASE indicator_type = "SMA" -> {"SMA_" \o ToString(config.period)}
          [] indicator_type = "EMA" -> {"EMA_" \o ToString(config.period)}
          [] indicator_type = "RSI" -> {"RSI_" \o ToString(config.period)}
          [] indicator_type = "MACD" -> {"MACD_Line", "MACD_Signal", "MACD_Histogram"}
          [] indicator_type \in {"BOLLINGER", "BB"} -> {"BB_Upper", "BB_Middle", "BB_Lower"}
          [] OTHER -> {}

\* the columns of the frame the conditions of config are evaluated on
Columns(market_data, config) ==
    DOMAIN market_data \cup
    UNION {IndicatorColumns(config.indicators[k]) : k \in DOMAIN config.indicators}

\* the columns the two conditions of config read
Referenced(config) ==
    Names(config.entry_rules.condition) \cup Names(config.exit_rules.condition)

\* C28: for every parameter combination generated from the declared ranges
\* and applied to a base configuration whose rules read only columns of its
\* own frame, the rules of the modified configuration read only columns
\* that the modified indicator list (or the price data) produces.
C28_RulesReadProducedColumns ==
    \A k \in DOMAIN log :
       (/\ opt.given.optimizable_params # <<>>
        /\ log[k].applied.raised = NoExc
        /\ Referenced(opt.given.config) \subseteq Columns(opt.given_data, opt.given.config))
       => Referenced(log[k].applied.value.config)
             \subseteq Columns(opt.given_data, log[k].applied.value.config)

\* the value the combination gives the parameter name
ValueOf(parameters, name) ==
    parameters[CHOOSE k \in DOMAIN parameters : parameters[k].name = name].value

Declares(parameters, name) == \E k \in DOMAIN parameters : parameters[k].name = name

\* one SMA below 30 first, one SMA of 30 or more second
FastAndSlow(config) ==
    /\ Len(config.indicators) = 2
    /\ \A k \in 1..2 : config.indicators[k].type = "SMA"
    /\ config.indicators[1].period < 30
    /\ config.indicators[2].period >= 30

\* C29: on a configuration with a fast SMA (period < 30) and a slow SMA
\* (period >= 30), applying SMA_fast_period = f and SMA_slow_period = s
\* leaves the fast indicator with period f and the slow one with period s,
\* for every f and s of the declared ranges, f = 30 included.
C29_OwnIndicatorOnly ==
    \A k \in DOMAIN log :
       (/\ FastAndSlow(opt.given.config)
        /\ Declares(log[k].parameters, "SMA_fast_period")
        /\ Declares(log[k].parameters, "SMA_slow_period")
        /\ log[k].applied.raised = NoExc)
       => /\ log[k].applied.value.config.indicators[1].period
                = ValueOf(log[k].parameters, "SMA_fast_period")
          /\ log[k].applied.value.config.indicators[2].period
                = ValueOf(log[k].parameters, "SMA_slow_period")

----------------------------------------------------------------------------
(* StrategyOptimizer.autonomous_improve                                    *)
(* The database session is [stored, flushed, commits, rollbacks]: the      *)
(* records committed, the records added and flushed in the open            *)
(* transaction, and how often commit and rollback were called. Which       *)
(* operation of the environment fails, if any, is fixed from the start     *)
(* (imp.fault): the data fetch or the writing of one generation's record;  *)
(* a commit that is reached goes through.                                  *)

\* largest max_generations handed to autonomous_improve
MaxGenerations == 3

\* the operation that raises: none, the data fetch, or the writing (add and
\* flush) of a generation's record
Faults ==
    {[at |-> "none", gen |-> 0], [at |-> "fetch", gen |-> 0]}
    \cup {[at |-> "flush", gen |-> g] : g \in 1..MaxGenerations}

\* f"{base_strategy_name} (Gen {generation})"
EvolvedName(base_strategy_name, generation) ==
    <<base_strategy_name, " (Gen ", generation, ")">>

create_evolved_strategy(base_strategy_name, optimized_config, performance_metrics, generation) ==
    [name |-> EvolvedName(base_strategy_name, generation),
     config |-> optimized_config,
     tags |-> <<"evolved", "optimized", <<"gen", generation>>>>,
     risk_level |-> "MEDIUM",
     is_active |-> TRUE,
     parent_strategy |-> base_strategy_name,
     generation |-> generation,
     performance_snapshot |-> performance_metrics]

\* Strategy(name=..., config=..., tags=..., risk_level=..., is_active=True)
\* with the id the flush gives it
StrategyRow(id, evolved_strategy) ==
    [id |-> id,
     name |-> evolved_strategy.name,
     config |-> evolved_strategy.config,
     tags |-> evolved_strategy.tags,
     risk_level |-> evolved_strategy.risk_level,
     is_active |-> TRUE]

\* the except clause of autonomous_improve, after the rollback
ImproveError(e) == [success |-> FALSE, error |-> e.msg]

\* the strategy is looked up and the market data fetched; base_config takes
\* the optimizable parameters of the prebuilt strategy of that name
ImpStart ==
    /\ pc = "autonomous_improve"
    /\ IF ~imp.strategy.found
       THEN /\ imp' = [imp EXCEPT !.exc = Raise("ValueError", <<"Strategy ", imp.strategy_id, " not found">>)]
            /\ pc' = "improve_except"
       ELSE IF imp.fault.at = "fetch"
       THEN /\ imp' = [imp EXCEPT !.exc = Raise("DataFetchError", <<"fetch failed">>)]
            /\ pc' = "improve_except"
       ELSE /\ imp' = [imp EXCEPT !.current_config =
                                     [name |-> imp.strategy.name,
                                      config |-> imp.strategy.config,
                                      optimizable_params |-> imp.strategy.prebuilt],
                                  !.gen = 1]
            /\ pc' = "improve_loop"
    /\ UNCHANGED <<pipevars_rest, prior, optvars, db, ret>>

\* the head of `for gen in range(1, max_generations + 1)` and the call of
\* optimize_strategy(current_config, market_data, 'sharpe_ratio', 30, 3)
ImpCallOptimize ==
    /\ pc = "improve_loop"
    /\ IF imp.gen <= imp.max_generations
       THEN /\ opt' = Frame(imp.current_config, MarketData, "sharpe_ratio", 30, 3, "improve")
            /\ out' = NoResult
            /\ log' = <<>>
            /\ imp' = [imp EXCEPT !.called = Append(@, [generation |-> imp.gen,
                                                       strategy_config |-> imp.current_config])]
            /\ pc' = "optimize_strategy"
       ELSE /\ pc' = "improve_commit"
            /\ UNCHANGED <<opt, out, log, imp>>
    /\ UNCHANGED <<pipevars_rest, prior, memo, db, ret>>

\* mutant: the next generation starts from the same base again
NextConfig_Stale(evolved_strategy, best_result, current_config) ==
    [name |-> evolved_strategy.name,
     config |-> current_config.config,
     optimizable_params |-> current_config.optimizable_params]

\* the base of the next generation: the best result's config under the
\* evolved name, with the optimizable parameters carried over
NextConfig(evolved_strategy, best_result, current_config) ==
    [name |-> evolved_strategy.name,
     config |-> best_result.config,
     optimizable_params |-> current_config.optimizable_params]

\* mutant: a failed generation is skipped and the loop goes on
ImpAfterOptimize_Skip ==
    /\ pc = "done"
    /\ opt.caller = "improve"
    /\ IF ~out.success \/ out.top_strategies = <<>>
       THEN /\ pc' = "improve_loop"
            /\ imp' = [imp EXCEPT !.gen = @ + 1,
                                  !.returned = Append(@, [generation |-> imp.gen, result |-> out])]
            /\ db' = db
       ELSE \E best_result \in {out.top_strategies[1]} :
            \E evolved_strategy \in {create_evolved_strategy(imp.strategy.name,
                                        best_result.config, best_result.metrics, imp.gen)} :
               IF imp.fault = [at |-> "flush", gen |-> imp.gen]
               THEN /\ imp' = [imp EXCEPT !.exc = Raise("SQLAlchemyError", <<"flush failed">>),
                                          !.returned = Append(@, [generation |-> imp.gen,
                                                                  result |-> out])]
                    /\ db' = db
                    /\ pc' = "improve_except"
               ELSE \E new_strategy \in {StrategyRow(Len(db.stored) + Len(db.flushed) + 1,
                                                    evolved_strategy)} :
                    /\ db' = [db EXCEPT !.flushed = Append(@, new_strategy)]
                    /\ imp' = [imp EXCEPT
                                  !.generations = Append(@, [generation |-> imp.gen,
                                                             strategy_id |-> new_strategy.id,
                                                             strategy_name |-> evolved_strategy.name,
                                                             metrics |-> best_result.metrics,
                                                             parameters |-> best_result.parameters]),
                                  !.current_config = NextConfig(evolved_strategy, best_result,
                                                                imp.current_config),
                                  !.gen = @ + 1,
                                  !.returned = Append(@, [generation |-> imp.gen, result |-> out])]
                    /\ pc' = "improve_loop"
    /\ UNCHANGED <<pipevars_rest, prior, optvars, ret>>

\* the rest of the loop body: break on a failed generation; otherwise the
\* best result becomes an evolved strategy, is added and flushed, listed in
\* generations, and becomes the base of the next generation
ImpAfterOptimize ==
    /\ pc = "done"
    /\ opt.caller = "improve"
    /\ IF ~out.success \/ out.top_strategies = <<>>
       THEN /\ pc' = "improve_commit"
            /\ imp' = [imp EXCEPT !.returned = Append(@, [generation |-> imp.gen, result |-> out])]
            /\ db' = db
       ELSE \E best_result \in {out.top_strategies[1]} :
            \E evolved_strategy \in {create_evolved_strategy(imp.strategy.name,
                                        best_result.config, best_result.metrics, imp.gen)} :
               IF imp.fault = [at |-> "flush", gen |-> imp.gen]
               THEN /\ imp' = [imp EXCEPT !.exc = Raise("SQLAlchemyError", <<"flush failed">>),
                                          !.returned = Append(@, [generation |-> imp.gen,
                                                                  result |-> out])]
                    /\ db' = db
                    /\ pc' = "improve_except"
               ELSE \E new_strategy \in {StrategyRow(Len(db.stored) + Len(db.flushed) + 1,
                                                    evolved_strategy)} :
                    /\ db' = [db EXCEPT !.flushed = Append(@, new_strategy)]
                    /\ imp' = [imp EXCEPT
                                  !.generations = Append(@, [generation |-> imp.gen,
                                                             strategy_id |-> new_strategy.id,
                                                             strategy_name |-> evolved_strategy.name,
                                                             metrics |-> best_result.metrics,
                                                             parameters |-> best_result.parameters]),
                                  !.current_config = NextConfig(evolved_strategy, best_result,
                                                                imp.current_config),
                                  !.gen = @ + 1,
                                  !.returned = Append(@, [generation |-> imp.gen, result |-> out])]
                    /\ pc' = "improve_loop"
    /\ UNCHANGED <<pipevars_rest, prior, optvars, ret>>

\* db_session.commit() and the result
ImpCommit ==
    /\ pc = "improve_commit"
    /\ db' = [db EXCEPT !.stored = @ \o db.flushed, !.flushed = <<>>, !.commits = @ + 1]
    /\ ret' = [success |-> TRUE,
               base_strategy |-> imp.strategy.name,
               base_strategy_id |-> imp.strategy_id,
               generations |-> imp.generations,
               total_generations |-> Len(imp.generations)]
    /\ pc' = "improved"
    /\ imp' = imp
    /\ UNCHANGED <<pipevars_rest, prior, optvars>>

\* mutant: the failure result without the rollback
ImpExcept_NoRollback ==
    /\ pc = "improve_except"
    /\ db' = db
    /\ ret' = ImproveError(imp.exc)
    /\ pc' = "improved"
    /\ UNCHANGED <<pipevars_rest, prior, optvars, imp>>

\* except Exception: rollback and the failure result
ImpExcept ==
    /\ pc = "improve_except"
    /\ db' = [db EXCEPT !.flushed = <<>>, !.rollbacks = @ + 1]
    /\ ret' = ImproveError(imp.exc)
    /\ pc' = "improved"
    /\ UNCHANGED <<pipevars_rest, prior, optvars, imp>>

----------------------------------------------------------------------------
(* SpecImprove: autonomous_improve on small strategies                     *)

\* a row of the strategies table with the optimizable parameters of the
\* prebuilt strategy of its name ({} when there is none)
Stored(strategy_config) ==
    [found |-> TRUE, name |-> strategy_config.name, config |-> strategy_config.config,
     prebuilt |-> strategy_config.optimizable_params]

\* one threshold, two combinations
RsiOversold ==
    StrategyConfig("RSI Oversold",
                   <<IndCfg("RSI", 14, "Close")>>,
                   Cmp("<", Col("RSI_14"), Lit(30)),
                   Cmp(">", Col("RSI_14"), Lit(70)),
                   <<Param("oversold_threshold", 20, 30, 10)>>)

\* one moving average and three ranges of one value each, applied in the
\* order long, medium, short: the period goes 50, 25, 40, 25, ...
EmaCycle ==
    StrategyConfig("EMA Trend",
                   <<IndCfg("EMA", 50, "Close")>>,
                   Cmp(">", Col("Close"), Lit(1)),
                   Cmp("<", Col("Close"), Lit(1)),
                   <<Param("EMA_long", 10, 10, 1), Param("EMA_medium", 40, 40, 1),
                     Param("EMA_short", 25, 25, 1)>>)

ImproveStrategies ==
    {Stored(RsiOversold), Stored(EmaCycle), Stored(BuyAndHold), Stored(NoExitRule),
     [found |-> FALSE]}

InitImprove ==
    /\ pc = "autonomous_improve"
    /\ PipeIdle
    /\ IndIdle
    /\ CondIdle
    /\ RunIdle
    /\ prior = NoPrior
    /\ OptIdle
    /\ \E strategy \in ImproveStrategies, max_generations \in 0..MaxGenerations,
          fault \in Faults :
             imp = [fn |-> "autonomous_improve",
                    strategy_id |-> 1,
                    strategy |-> strategy,
                    max_generations |-> max_generations,
                    fault |-> fault,
                    gen |-> 0,
                    current_config |-> <<>>,
                    generations |-> <<>>,
                    called |-> <<>>,
                    returned |-> <<>>,
                    exc |-> NoExc]
    /\ db = [stored |-> <<>>, flushed |-> <<>>, commits |-> 0, rollbacks |-> 0]
    /\ ret = NoResult

NextImprove ==
    \/ ImpStart
    \/ ImpCallOptimize
    \/ OptStart
    \/ OptTry
    \/ OptFinish
    \/ OptWithoutParams
    \/ ImpAfterOptimize
    \/ ImpCommit
    \/ ImpExcept

SpecImprove == InitImprove /\ [][NextImprove]_vars

Improved == pc = "improved"

\* C17: generations run strictly in the order 1, 2, ..., at most
\* max_generations of them, and for every g for which generation g+1 runs,
\* the base configuration given to optimize_strategy in generation g+1 is
\* the config of generation g's best result (top_strategies[0]), with the
\* optimizable parameter ranges carried over unchanged.
C17_GenerationsChain ==
    imp # NoFrame =>
        /\ Len(imp.called) <= imp.max_generations
        /\ \A g \in DOMAIN imp.called : imp.called[g].generation = g
        /\ Len(imp.returned) \in {Len(imp.called), Len(imp.called) - 1}
        /\ \A g \in DOMAIN imp.returned : imp.returned[g].generation = g
        /\ \A g \in DOMAIN imp.called :
              (g + 1) \in DOMAIN imp.called =>
                 /\ imp.returned[g].result.success
                 /\ imp.called[g + 1].strategy_config.config =
                       imp.returned[g].result.top_strategies[1].config
                 /\ imp.called[g + 1].strategy_config.optimizable_params =
                       imp.called[g].strategy_config.optimizable_params
                 /\ imp.called[g + 1].strategy_config.optimizable_params = imp.strategy.prebuilt

\* a second generation was started from a configuration other than the
\* first one's base
C17_Witness ==
    /\ imp # NoFrame
    /\ Len(imp.called) = 2
    /\ imp.called[2].strategy_config.config # imp.called[1].strategy_config.config
    /\ imp.called[2].strategy_config.optimizable_params # <<>>

\* the generations whose optimization reported failure or no top strategy
FailedGenerations ==
    {g \in DOMAIN imp.returned :
        \/ ~imp.returned[g].result.success
        \/ imp.returned[g].result.top_strategies = <<>>}

\* C18: if generation g has no successful combination (optimize_strategy
\* reports failure or an empty top_strategies), the loop stops without
\* running generations g+1..G, and the call still returns success = true
\* listing exactly generations 1..g-1, whose evolved strategy records are
\* committed; exactly one strategy record is written per listed generation.
C18_FailedGenerationStops ==
    (imp # NoFrame /\ Improved) =>
        \A g \in FailedGenerations :
           /\ Len(imp.called) = g
           /\ ret.success
           /\ Len(ret.generations) = g - 1
           /\ \A k \in 1..(g - 1) : ret.generations[k].generation = k
           /\ db.commits = 1 /\ db.rollbacks = 0
           /\ db.flushed = <<>>
           /\ Len(db.stored) = g - 1
           /\ \A k \in 1..(g - 1) :
                 /\ db.stored[k].id = ret.generations[k].strategy_id
                 /\ db.stored[k].name = ret.generations[k].strategy_name
                 /\ db.stored[k].config = imp.returned[k].result.top_strategies[1].config

\* the second of at least three generations failed after the first one
\* succeeded, and the call has returned
C18_Witness ==
    /\ imp # NoFrame
    /\ Improved
    /\ imp.max_generations > 2
    /\ 2 \in FailedGenerations
    /\ ret.success
    /\ Len(db.stored) = 1

\* C30: autonomous_improve persists atomically. Once an exception was raised
\* (strategy not found, data fetch failure, or a failure while writing the
\* record of generation k) commit is never called, and when the call has
\* returned the session was rolled back once, no record of the call is
\* stored or pending (those flushed by earlier generations included) and
\* the result is success = false. Commit is called at most once, only after
\* the generation loop, and exactly once on every path that returns
\* success = true, where it stores the records of the listed generations.
C30_AtomicPersistence ==
    imp # NoFrame =>
        /\ db.commits = (IF Improved /\ imp.exc = NoExc THEN 1 ELSE 0)
        /\ db.rollbacks = (IF Improved /\ imp.exc # NoExc THEN 1 ELSE 0)
        /\ db.stored # <<>> => (Improved /\ imp.exc = NoExc)
        /\ Improved =>
              /\ ret.success <=> imp.exc = NoExc
              /\ db.flushed = <<>>
              /\ ret.success =>
                    /\ Len(db.stored) = Len(ret.generations)
                    /\ \A k \in DOMAIN db.stored :
                          db.stored[k].id = ret.generations[k].strategy_id
        /\ (imp.fault.at = "fetch" /\ imp.strategy.found /\ Improved) => ~ret.success
        /\ (~imp.strategy.found /\ Improved) => ~ret.success
        /\ (imp.fault.at = "flush" /\ Improved /\ ret.success) =>
              Len(ret.generations) < imp.fault.gen

\* writing the record of the second generation failed after the record of
\* the first had been flushed; the call has returned and nothing is stored
C30_Witness ==
    /\ imp # NoFrame
    /\ Improved
    /\ imp.fault = [at |-> "flush", gen |-> 2]
    /\ Len(imp.generations) = 1
    /\ imp.exc # NoExc
    /\ db.rollbacks = 1
    /\ db.stored = <<>>
    /\ ~ret.success

----------------------------------------------------------------------------
(* SpecGen: _generate_parameter_combinations on small declared ranges      *)

\* largest declared max and largest max_combinations
MaxValue == 3

MaxCombinations == 3

\* declared integer ranges with step > 0 and min <= max
DeclaredRanges(name) ==
    {Param(name, min, max, step) : min \in 1..2, max \in 1..MaxValue, step \in 1..2}
    \ {Param(name, 2, 1, step) : step \in 1..2}

\* no parameter, one parameter, or one parameter and a second of two values
DeclaredParams ==
    {<<>>}
    \cup {<<r>> : r \in DeclaredRanges("SMA_fast_period")}
    \cup {<<r, Param("RSI_period", 5, 6, 1)>> : r \in DeclaredRanges("SMA_fast_period")}

InitGen ==
    /\ pc = "generate"
    /\ PipeIdle
    /\ IndIdle
    /\ CondIdle
    /\ RunIdle
    /\ prior = NoPrior
    /\ ImpIdle
    /\ \E optimizable_params \in DeclaredParams, max_combinations \in 0..MaxCombinations :
          opt = [fn |-> "generate_parameter_combinations",
                 optimizable_params |-> optimizable_params,
                 max_combinations |-> max_combinations]
    /\ out = NoResult
    /\ memo = <<>>
    /\ log = <<>>

GenerateCombinations ==
    /\ pc = "generate"
    /\ out' \in generate_parameter_combinations(opt.optimizable_params, opt.max_combinations)
    /\ pc' = "generated"
    /\ UNCHANGED <<pipevars_rest, prior, opt, memo, log, impvars>>

NextGen == GenerateCombinations

SpecGen == InitGen /\ [][NextGen]_vars

Generated == pc = "generated"

\* C25: every value that _generate_parameter_combinations produces for a
\* parameter lies within that parameter's declared range, min <= value <=
\* max, for every declared integer {min, max, step} with step > 0, including
\* ranges where max - min is not a multiple of step.
C25_ValuesWithinRange ==
    Generated =>
        \A c \in DOMAIN out :
           \A k \in DOMAIN out[c] :
              /\ opt.optimizable_params[k].min <= out[c][k].value
              /\ out[c][k].value <= opt.optimizable_params[k].max

\* the length of a parameter's value list: min, min + step, ... while the
\* value is below max + step
Count(param) == ((param.max + param.step - 1 - param.min) \div param.step) + 1

\* size of the Cartesian product of the first k value lists
RECURSIVE Size(_, _)
Size(optimizable_params, k) ==
    IF k = 0 THEN 1 ELSE Size(optimizable_params, k - 1) * Count(optimizable_params[k])

\* a member of the product: for every parameter, its name with one of the
\* values min + j * step of its value list
Member(optimizable_params, combo) ==
    /\ DOMAIN combo = DOMAIN optimizable_params
    /\ \A k \in DOMAIN combo :
          /\ combo[k].name = optimizable_params[k].name
          /\ \E j \in 0..(Count(optimizable_params[k]) - 1) :
                combo[k].value = optimizable_params[k].min + j * optimizable_params[k].step

\* a comes before b in Cartesian order: at the first parameter where they
\* differ a has the lower value
Before(a, b) ==
    \E k \in DOMAIN a :
       /\ a[k].value < b[k].value
       /\ \A j \in 1..(k - 1) : a[j].value = b[j].value

\* C26: _generate_parameter_combinations returns exactly
\* min(P, max_combinations) combinations, where P is the size of the full
\* Cartesian product of the per-parameter value lists; they are pairwise
\* distinct members of that product, and when P <= max_combinations they
\* are the whole product in Cartesian order.
C26_SampleOfProduct ==
    Generated =>
        LET P == Size(opt.optimizable_params, Len(opt.optimizable_params))
        IN  /\ Len(out) = IF P < opt.max_combinations THEN P ELSE opt.max_combinations
            /\ \A c \in DOMAIN out : Member(opt.optimizable_params, out[c])
            /\ \A c, d \in DOMAIN out : c # d => out[c] # out[d]
            /\ P <= opt.max_combinations =>
                  \A c, d \in DOMAIN out : c < d => Before(out[c], out[d])

\* a sample of three out of more combinations of two parameters, not in
\* Cartesian order
C26_Witness ==
    /\ Generated
    /\ Len(opt.optimizable_params) = 2
    /\ Size(opt.optimizable_params, 2) > 3
    /\ Len(out) = 3
    /\ Before(out[2], out[1])

====
